---- MODULE Spec2Model ----
(***************************************************************************)
(* Model of bot.py: the persisted subscribers document, the in-memory TTL  *)
(* cache of catalog results, the command / button handlers that mutate the *)
(* document, and the scheduled daily_job tick.                             *)
(*                                                                         *)
(* Execution model (asyncio, one event loop): a coroutine runs without     *)
(* interruption from one await that really suspends to the next.  The      *)
(* scheduler tick (job queue) and one update handler (updates are handled  *)
(* one at a time) are the two coroutines that can be alive together.  A    *)
(* coroutine is "suspended" when it is idle or parked at a network await;  *)
(* every step of one coroutine requires the other to be suspended, so the  *)
(* steps between two awaits form one atomic block exactly as in the code.  *)
(*                                                                         *)
(* Not modelled: the title / pageSlug fields of a subscription record and  *)
(* the text of messages (no property reads them).  A save_json that raises *)
(* is taken to raise at open(), with the file as it was; a write that      *)
(* breaks off in the middle is not modelled.  Inside a command handler     *)
(* such a failure leaves the same state as the command not being issued,   *)
(* so the handlers are modelled with the save succeeding; inside daily_job *)
(* the save is followed by more work of the same tick, so there its        *)
(* failure is an explicit outcome.                                         *)
(*                                                                         *)
(* Besides the scheduler models (Spec, SpecRestarted, SpecDaily) and the   *)
(* cache model (SpecCache), each function that is studied on its own has a *)
(* small specification that draws its arguments in Init and applies it:    *)
(* the classification of catalog elements (SpecClassifier), the store URL  *)
(* and page slug (SpecSlugs), get_user_prefs on the file (SpecPrefs), the  *)
(* trailer lookup (SpecTrailer), the content document scan (SpecScan),     *)
(* send_free_games (SpecSend), the store mutations (SpecStore) and the     *)
(* cache keys (SpecKeys).                                                  *)
(***************************************************************************)
EXTENDS Integers, Sequences, FiniteSets, TLC

VARIABLES
    doc,        \* content of subscribers.json (SUBSCRIBERS_FILE)
    cache,      \* FREE_GAMES_CACHE: key string -> [at, items]
    now,        \* wall clock, seconds
    jpc,        \* position of the daily_job coroutine
    job,        \* locals of the running / last daily_job tick
    hpc,        \* position of the update-handler coroutine
    hnd,        \* locals of the running handler
    sent,       \* successful "Now free" deliveries per (chat, offer) since the
                \* last subscribe / unsubscribe of that pair (capped at 2)
    last,       \* the last completed store call and what it returned
    ticks,      \* number of ticks started
    cmds,       \* number of handler invocations started
    calls,      \* cache model: the fetch call of each coroutine
    fetched,    \* cache model: per (kind, locale, country), the last list
                \* that a successful upstream request produced, and when
    started,    \* cache model: number of fetch calls started
    given,      \* function models: the arguments of the call under study
    result      \* function models: what the call has produced so far

vars == <<doc, cache, now, jpc, job, hpc, hnd, sent, last, ticks, cmds,
          calls, fetched, started, given, result>>

\* ------------------------------------------------------------------ bounds
MaxTicks == 2
MaxCmds == 2
MaxCalls == 3

\* ------------------------------------------------------- program constants
CACHE_TTL_SECONDS == 600

\* ------------------------------------------------------------ small domains
ChatIds == {1, 2}
Offers == {"A", "B"}
Locales == {"en-US", "de"}
None == "None"
\* instants the clock takes in the scheduler model: an entry cached at 0 has
\* expired at 601
TimePoints == {0, 601}

\* str(chat_id) / int(key): the document keys users by the decimal string
str(c) == CASE c = 1 -> "1" [] c = 2 -> "2" [] c = 3 -> "3"
int(s) == CASE s = "1" -> 1 [] s = "2" -> 2 [] s = "3" -> 3

\* ------------------------------------------------------------ dict helpers
EmptyDict == [k \in {} |-> None]
DictGet(d, k, default) == IF k \in DOMAIN d THEN d[k] ELSE default
DictPut(d, k, v) == [x \in (DOMAIN d) \cup {k} |-> IF x = k THEN v ELSE d[x]]
DictDel(d, k) == [x \in (DOMAIN d) \ {k} |-> d[x]]

\* An ordered dict offer_id -> meta (Python dicts and JSON objects keep
\* insertion order) is a sequence of [oid, notified] without repeated oid.
HasKey(us, o) == \E i \in 1..Len(us) : us[i].oid = o
IndexOf(us, o) == CHOOSE i \in 1..Len(us) : us[i].oid = o
OdPut(us, o, meta) ==
    IF HasKey(us, o)
    THEN [i \in 1..Len(us) |-> IF us[i].oid = o THEN meta ELSE us[i]]
    ELSE Append(us, meta)
OdPop(us, o) == SelectSeq(us, LAMBDA r : r.oid # o)
SeqRemove(s, x) == SelectSeq(s, LAMBDA y : y # x)
InSeq(s, x) == \E i \in 1..Len(s) : s[i] = x
Range(s) == {s[i] : i \in 1..Len(s)}

\* ------------------------------------------------------------ the document
\* ensure_files_exist writes this document when the file is missing
NewDocument == [chat_ids |-> <<>>, users |-> EmptyDict, offer_subs |-> EmptyDict]

get_user_prefs(d, chat_id) ==
    LET prefs == DictGet(d.users, str(chat_id), EmptyDict)
    IN  [locale  |-> DictGet(prefs, "locale", "en-US"),
         country |-> DictGet(prefs, "country", "US")]

\* a variant that stores the new value as the user's only preference
set_user_pref_replacing(d, chat_id, key, value) ==
    [d EXCEPT !.users = DictPut(d.users, str(chat_id), DictPut(EmptyDict, key, value))]

set_user_pref(d, chat_id, key, value) ==
    LET user == DictGet(d.users, str(chat_id), EmptyDict)
    IN  [d EXCEPT !.users = DictPut(d.users, str(chat_id), DictPut(user, key, value))]

is_subscribed_to_offer(d, chat_id, offer_id) ==
    HasKey(DictGet(d.offer_subs, str(chat_id), <<>>), offer_id)

NewMeta(offer_id) == [oid |-> offer_id, notified |-> FALSE]

\* a variant that adds a record without looking for an existing one
subscribe_appending(d, chat_id, offer_id) ==
    LET user_subs == DictGet(d.offer_subs, str(chat_id), <<>>)
    IN  [d EXCEPT !.offer_subs =
            DictPut(d.offer_subs, str(chat_id), Append(user_subs, NewMeta(offer_id)))]

subscribe_to_offer(d, chat_id, offer_id) ==
    LET user_subs == DictGet(d.offer_subs, str(chat_id), <<>>)
    IN  [d EXCEPT !.offer_subs =
            DictPut(d.offer_subs, str(chat_id), OdPut(user_subs, offer_id, NewMeta(offer_id)))]

unsubscribe_from_offer(d, chat_id, offer_id) ==
    LET user_subs == DictGet(d.offer_subs, str(chat_id), <<>>)
    IN  IF HasKey(user_subs, offer_id)
        THEN [d EXCEPT !.offer_subs =
                DictPut(d.offer_subs, str(chat_id), OdPop(user_subs, offer_id))]
        ELSE d      \* nothing is saved

\* subscribe_cmd and the "sub:1" button / unsubscribe_cmd and the "sub:0" button
digest_subscribe(d, chat_id) ==
    IF InSeq(d.chat_ids, chat_id) THEN d
    ELSE [d EXCEPT !.chat_ids = Append(d.chat_ids, chat_id)]

\* list.remove drops the first occurrence
RemoveFirst(s, x) ==
    LET i == CHOOSE j \in 1..Len(s) : s[j] = x /\ \A k \in 1..(j-1) : s[k] # x
    IN  [j \in 1..(Len(s) - 1) |-> IF j < i THEN s[j] ELSE s[j + 1]]

digest_unsubscribe(d, chat_id) ==
    IF InSeq(d.chat_ids, chat_id)
    THEN [d EXCEPT !.chat_ids = RemoveFirst(d.chat_ids, chat_id)]
    ELSE d

\* The persisted state of one (chat, offer) pair
Absent(d, c, o) == ~is_subscribed_to_offer(d, c, o)
Meta(d, c, o) == LET us == d.offer_subs[str(c)] IN us[IndexOf(us, o)]
Watching(d, c, o) == is_subscribed_to_offer(d, c, o) /\ ~Meta(d, c, o).notified
Notified(d, c, o) == is_subscribed_to_offer(d, c, o) /\ Meta(d, c, o).notified

\* --------------------------------------------------------------- the cache
\* a variant that leaves the kind out of the key
_cache_key_without_kind(locale, country, kind) == locale \o "|" \o country

_cache_key(locale, country, kind) == locale \o "|" \o country \o "|" \o kind

\* An optional list: Python's None or a list
Nothing == [some |-> FALSE, items |-> <<>>]
Some(items) == [some |-> TRUE, items |-> items]

\* a variant that expires an entry one second early
_get_cached_expiring_at_ttl(ch, t, locale, country, kind) ==
    LET key == _cache_key(locale, country, kind)
    IN  IF key \notin DOMAIN ch THEN <<Nothing, ch>>
        ELSE IF t - ch[key].at >= CACHE_TTL_SECONDS THEN <<Nothing, DictDel(ch, key)>>
        ELSE <<Some(ch[key].items), ch>>

\* _get_cached: <<result, cache afterwards>>; an expired entry is evicted
_get_cached(ch, t, locale, country, kind) ==
    LET key == _cache_key(locale, country, kind)
    IN  IF key \notin DOMAIN ch THEN <<Nothing, ch>>
        ELSE IF t - ch[key].at > CACHE_TTL_SECONDS THEN <<Nothing, DictDel(ch, key)>>
        ELSE <<Some(ch[key].items), ch>>

_set_cached(ch, t, locale, country, kind, items) ==
    DictPut(ch, _cache_key(locale, country, kind), [at |-> t, items |-> items])

\* ------------------------------------------------------ the upstream catalog
\* A date field of a window is absent, a string fromisoformat rejects, or a
\* date: the wall time written in the string and its UTC offset, which
\* datetime.fromisoformat turns into the instant local - off.
NoDate == [tag |-> "none", local |-> 0, off |-> 0]
BadDate == [tag |-> "bad", local |-> 0, off |-> 0]
Date(local, off) == [tag |-> "date", local |-> local, off |-> off]
Instant(dt) == dt.local - dt.off

\* lines 145-151: one parse failure clears both bounds of the window
WindowBounds(po) ==
    IF po.startDate.tag = "bad" \/ po.endDate.tag = "bad"
    THEN [start |-> NoDate, end |-> NoDate]
    ELSE [start |-> po.startDate, end |-> po.endDate]

\* line 152
WindowActive(po, t) ==
    LET b == WindowBounds(po)
    IN  /\ (b.start.tag = "none" \/ Instant(b.start) <= t)
        /\ (b.end.tag = "none" \/ t < Instant(b.end))

\* lines 137-158: el.current is promotions.promotionalOffers, a list of
\* offers, each a list of windows
IsActive(el, t) ==
    \E i \in 1..Len(el.current) :
        \E j \in 1..Len(el.current[i]) : WindowActive(el.current[i][j], t)

FreeNow(elements, t) == SelectSeq(elements, LAMBDA el : IsActive(el, t))

\* lines 291-300
get_offer_id(el) ==
    IF el.id # "" THEN el.id
    ELSE IF Len(el.items) > 0 /\ el.items[1].id # "" THEN el.items[1].id
    ELSE None

FreeIds(current) == {get_offer_id(current[i]) : i \in 1..Len(current)} \ {None}

\* Catalog elements of the scheduler model: an offer is either free now (an
\* open-ended active window) or announced (an upcoming window that starts
\* after every instant of the clock).
OpenWindow == [startDate |-> NoDate, endDate |-> NoDate]
LaterWindow == [startDate |-> Date(5000, 0), endDate |-> NoDate]
Element(o, free) ==
    [id |-> o, items |-> <<>>,
     current  |-> IF free THEN << <<OpenWindow>> >> ELSE <<>>,
     upcoming |-> IF free THEN <<>> ELSE << <<LaterWindow>> >>]
Catalog(free) == <<Element("A", "A" \in free), Element("B", "B" \in free)>>

\* What the upstream request gives: a parsed element list, or an error
\* (non-success status, malformed body, timeout)
UpstreamError == [ok |-> FALSE, elements |-> <<>>]
Responses == {[ok |-> TRUE, elements |-> Catalog(f)] : f \in SUBSET Offers}
                \cup {UpstreamError}
\* The scheduler never reads an announced list, so the request of
\* fetch_upcoming_games answers with one catalog or fails.
UpcomingResponses == {[ok |-> TRUE, elements |-> Catalog({})], UpstreamError}

\* A call's outcome: a returned list, or an exception
Returned(items) == [raised |-> FALSE, items |-> items]
Raised == [raised |-> TRUE, items |-> <<>>]

\* fetch_free_games up to its network await: <<cached or Nothing, cache>>
fetch_free_games_begin(ch, t, locale, country) ==
    _get_cached(ch, t, locale, country, "current")

\* a variant that stores an empty list when the request fails
fetch_free_games_finish_storing_failure(ch, t, locale, country, resp) ==
    IF ~resp.ok THEN <<Raised, _set_cached(ch, t, locale, country, "current", <<>>)>>
    ELSE LET free_now == FreeNow(resp.elements, t)
         IN  <<Returned(free_now),
               _set_cached(ch, t, locale, country, "current", free_now)>>

\* fetch_free_games from the response on: <<outcome, cache>>;
\* raise_for_status / resp.json() raise before anything is stored
fetch_free_games_finish(ch, t, locale, country, resp) ==
    IF ~resp.ok THEN <<Raised, ch>>
    ELSE LET free_now == FreeNow(resp.elements, t)
         IN  <<Returned(free_now),
               _set_cached(ch, t, locale, country, "current", free_now)>>

\* lines 192-205: the earliest strictly future start among the upcoming
\* windows, in list order (a later equal instant does not replace it)
UpcomingWindows(el) ==
    LET Flat[i \in 0..Len(el.upcoming)] ==
            IF i = 0 THEN <<>> ELSE Flat[i - 1] \o el.upcoming[i]
    IN  Flat[Len(el.upcoming)]

FutureStarts(el, t) ==
    LET w == UpcomingWindows(el)
        starts == [i \in 1..Len(w) |-> w[i].startDate]
    IN  SelectSeq(starts, LAMBDA d : d.tag = "date" /\ Instant(d) > t)

SoonestStart(starts) ==
    LET Best[i \in 1..Len(starts)] ==
            IF i = 1 THEN starts[1]
            ELSE IF Instant(starts[i]) < Instant(Best[i - 1]) THEN starts[i]
                 ELSE Best[i - 1]
    IN  Best[Len(starts)]

\* order of the isoformat() strings that line 211 sorts by: the wall time
\* first, then the offset text ("+" sorts before "-", then the digits)
Abs(n) == IF n < 0 THEN -n ELSE n
IsoLess(a, b) ==
    \/ a.local < b.local
    \/ /\ a.local = b.local
       /\ \/ a.off >= 0 /\ b.off < 0
          \/ (a.off >= 0) = (b.off >= 0) /\ Abs(a.off) < Abs(b.off)

\* list.sort is stable: an element goes after every element not greater
InsertSorted(sorted, el) ==
    LET k == Cardinality({i \in 1..Len(sorted) :
                    ~IsoLess(el.upcomingStart, sorted[i].upcomingStart)})
        \* sorted is ordered, so the elements not greater than el are a prefix
    IN  SubSeq(sorted, 1, k) \o <<el>> \o SubSeq(sorted, k + 1, Len(sorted))

SortByStart(els) ==
    LET Acc[i \in 0..Len(els)] ==
            IF i = 0 THEN <<>> ELSE InsertSorted(Acc[i - 1], els[i])
    IN  Acc[Len(els)]

Upcoming(elements, t) ==
    LET picked == SelectSeq(elements, LAMBDA el : Len(FutureStarts(el, t)) > 0)
        tagged == [i \in 1..Len(picked) |->
                    [id |-> picked[i].id, items |-> picked[i].items,
                     current |-> picked[i].current, upcoming |-> picked[i].upcoming,
                     upcomingStart |-> SoonestStart(FutureStarts(picked[i], t))]]
    IN  SortByStart(tagged)

fetch_upcoming_games_begin(ch, t, locale, country) ==
    _get_cached(ch, t, locale, country, "upcoming")

fetch_upcoming_games_finish(ch, t, locale, country, resp) ==
    IF ~resp.ok THEN <<Raised, ch>>
    ELSE LET upcoming == Upcoming(resp.elements, t)
         IN  <<Returned(upcoming),
               _set_cached(ch, t, locale, country, "upcoming", upcoming)>>

\* ------------------------------------------------------------- daily_job
\* line 795
ShouldNotify(free_ids, meta) ==
    free_ids # {} /\ meta.oid \in free_ids /\ ~meta.notified

\* a variant that rebuilds the flags, setting only the one just delivered
MarkNotifiedOnly(user_offer_subs, i) ==
    [k \in 1..Len(user_offer_subs) |->
        [oid |-> user_offer_subs[k].oid, notified |-> k = i]]

\* line 800: meta["notified"] = True, on the tick's working copy
MarkNotified(user_offer_subs, i) ==
    [user_offer_subs EXCEPT ![i] = [oid |-> @.oid, notified |-> TRUE]]

\* a variant that saves the freshly loaded document as it is
persist_nothing(d, chat_id, user_offer_subs) == d

\* lines 806-808: the user's whole subscription map is written back from the
\* working copy into a freshly loaded document
persist_notifications(d, chat_id, user_offer_subs) ==
    [d EXCEPT !.offer_subs = DictPut(d.offer_subs, str(chat_id), user_offer_subs)]

\* line 775
chat_ids_to_process(subs, offer_subs) ==
    Range(subs) \cup {int(k) : k \in DOMAIN offer_subs}

IdleJob ==
    [subs |-> <<>>, offer_subs |-> EmptyDict, order |-> <<>>,
     chat |-> 0, locale |-> "", country |-> "", free_ids |-> {}, i |-> 0,
     any_sent |-> FALSE, dq |-> <<>>, games |-> <<>>,
     okSends |-> {}, failedSends |-> {},
     digestTried |-> {}, outcome |-> "none"]

IdleHandler == [op |-> "", chat |-> 0, oid |-> "", locale |-> "", country |-> ""]

NoCall == [op |-> "none", chat |-> 0, oid |-> "", again |-> FALSE]

AwaitPcs == {"await_fetch", "await_send", "await_digest_fetch", "await_digest_send"}
JobSuspended == jpc \in AwaitPcs \cup {"idle"}
HandlerSuspended == hpc \in {"idle", "await_free", "await_upcoming"}

\* cache model: the coroutines that can be inside a fetch call together, and
\* the record of a call
Callers == {"job", "handler"}
NoFetch == [valid |-> FALSE, at |-> 0, items |-> <<>>]
IdleCall ==
    [state |-> "idle", kind |-> "", locale |-> "", country |-> "",
     start |-> 0, reqs |-> 0, items |-> <<>>, prior |-> NoFetch]

Bump(n) == IF n < 2 THEN n + 1 ELSE 2

\* function models: no call is under study
NotCalled == [fn |-> "none"]

\* the orders in which a Python set of chat ids can be iterated
Orders(S) ==
    {q \in [1..Cardinality(S) -> S] : \A i, j \in 1..Cardinality(S) : q[i] = q[j] => i = j}

\* The working copy of the current chat's subscriptions (line 792)
UserSubsOf(j) == DictGet(j.offer_subs, str(j.chat), <<>>)

\* lines 794-795: the loop over the working copy runs on to the next entry
\* that needs a message (the await of line 799) or to its end
NextToSend(user_offer_subs, free_ids, from) ==
    LET due == {k \in from..Len(user_offer_subs) :
                    ShouldNotify(free_ids, user_offer_subs[k])}
    IN  IF due = {} THEN Len(user_offer_subs) + 1
        ELSE CHOOSE k \in due : \A n \in due : k <= n

\* lines 785-789: free_ids of the current chat
SetFreeIds(j, ids) == [j EXCEPT !.free_ids = ids]

\* daily_job between two suspensions is a deterministic run of the machine
\* m = [pc, job, cache, doc]; the steps below are its straight-line pieces.

\* lines 778-781: the next chat of the set, its prefs, and fetch_free_games up
\* to the cache lookup; a hit goes on without suspending
StepNextChat(m) ==
    IF m.job.order = <<>>
    THEN [m EXCEPT !.pc = "digest_next", !.job.dq = m.job.subs, !.job.chat = 0]
    ELSE LET c == Head(m.job.order)
             prefs == get_user_prefs(m.doc, c)
             r == fetch_free_games_begin(m.cache, now, prefs.locale, prefs.country)
             j1 == [m.job EXCEPT !.order = Tail(@), !.chat = c,
                                 !.locale = prefs.locale, !.country = prefs.country,
                                 !.i = 1, !.any_sent = FALSE, !.free_ids = {}]
         IN  IF r[1].some
             THEN [m EXCEPT !.pc = "offers", !.cache = r[2],
                            !.job = SetFreeIds(j1, FreeIds(r[1].items))]
             ELSE [m EXCEPT !.pc = "await_fetch", !.cache = r[2], !.job = j1]

\* lines 794-799
StepOffers(m) ==
    LET k == NextToSend(UserSubsOf(m.job), m.job.free_ids, m.job.i)
    IN  [m EXCEPT !.job.i = k,
                  !.pc = IF k > Len(UserSubsOf(m.job)) THEN "persist" ELSE "await_send"]

\* a variant that writes the working copy back also when nothing was sent
StepPersistAlways(m, saved) ==
    IF saved
    THEN [m EXCEPT !.pc = "next_chat",
                   !.doc = persist_notifications(m.doc, m.job.chat, UserSubsOf(m.job))]
    ELSE [m EXCEPT !.pc = "returned", !.job.outcome = "aborted"]

\* lines 804-808: save_json either writes or raises; nothing catches the
\* exception, so it ends the tick
StepPersist(m, saved) ==
    IF ~m.job.any_sent THEN [m EXCEPT !.pc = "next_chat"]
    ELSE IF saved
    THEN [m EXCEPT !.pc = "next_chat",
                   !.doc = persist_notifications(m.doc, m.job.chat, UserSubsOf(m.job))]
    ELSE [m EXCEPT !.pc = "returned", !.job.outcome = "aborted"]

\* lines 811-813 and 352-353: the next digest subscriber, send_free_games up
\* to the cache lookup of its fetch
StepDigestNext(m) ==
    IF m.job.dq = <<>>
    THEN [m EXCEPT !.pc = "returned", !.job.outcome = "completed"]
    ELSE LET c == Head(m.job.dq)
             prefs == get_user_prefs(m.doc, c)
             r == fetch_free_games_begin(m.cache, now, prefs.locale, prefs.country)
             j1 == [m.job EXCEPT !.chat = c, !.locale = prefs.locale,
                                 !.country = prefs.country]
         IN  IF r[1].some
             THEN [m EXCEPT !.pc = "await_digest_send", !.cache = r[2],
                            !.job = [j1 EXCEPT !.games = r[1].items]]
             ELSE [m EXCEPT !.pc = "await_digest_fetch", !.cache = r[2], !.job = j1]

StepJob(m, saved) ==
    CASE m.pc = "next_chat" -> StepNextChat(m)
      [] m.pc = "offers" -> StepOffers(m)
      [] m.pc = "persist" -> StepPersist(m, saved)
      [] m.pc = "digest_next" -> StepDigestNext(m)

\* step after step until the coroutine is parked at an await or has returned
RECURSIVE RunJob(_, _)
RunJob(m, saved) ==
    IF m.pc \in {"next_chat", "offers", "persist", "digest_next"}
    THEN CHOOSE r \in {RunJob(n, saved) : n \in {StepJob(m, saved)}} : TRUE
    ELSE m

\* the coroutine runs from machine state m to its next suspension
JobLands(r) ==
    /\ jpc' = r.pc
    /\ job' = r.job
    /\ cache' = r.cache
    /\ doc' = r.doc
    /\ last' = IF r.doc = doc THEN last ELSE NoCall

JobRunsFrom(m, saved) == JobLands(RunJob(m, saved))

Init ==
    /\ doc = NewDocument
    /\ cache = EmptyDict
    /\ now = 0
    /\ jpc = "idle"
    /\ job = IdleJob
    /\ hpc = "idle"
    /\ hnd = IdleHandler
    /\ sent = [p \in ChatIds \X Offers |-> 0]
    /\ last = NoCall
    /\ ticks = 0
    /\ cmds = 0
    /\ calls = [c \in Callers |-> IdleCall]
    /\ fetched = EmptyDict
    /\ started = 0
    /\ given = NotCalled
    /\ result = NotCalled

\* lines 768-775: both loads happen before the first await
JobBegin ==
    /\ jpc = "idle" /\ HandlerSuspended
    /\ \E order \in Orders(chat_ids_to_process(doc.chat_ids, doc.offer_subs)) :
         JobRunsFrom([pc |-> "next_chat", cache |-> cache, doc |-> doc,
                      job |-> [IdleJob EXCEPT
                                  !.subs = doc.chat_ids,
                                  !.offer_subs = doc.offer_subs,
                                  !.order = order,
                                  !.outcome = "running"]], TRUE)
    /\ UNCHANGED <<now, hpc, hnd, sent, cmds, calls, fetched, started, given, result>>

JobStart ==
    /\ ticks < MaxTicks
    /\ ticks' = ticks + 1
    /\ JobBegin

\* lines 781-789: the catalog request returns; an error leaves current = []
JobFetchReturns(resp) ==
    /\ jpc = "await_fetch" /\ HandlerSuspended
    /\ LET r == fetch_free_games_finish(cache, now, job.locale, job.country, resp)
       IN  JobRunsFrom([pc |-> "offers", cache |-> r[2], doc |-> doc,
                        job |-> IF r[1].raised THEN job
                                ELSE SetFreeIds(job, FreeIds(r[1].items))],
                       TRUE)
    /\ UNCHANGED <<now, hpc, hnd, sent, ticks, cmds, calls, fetched, started, given, result>>

\* a variant that sets the flag whether or not send_message raised
AfterSendMarksAlways(j, ok) ==
    LET p == <<j.chat, UserSubsOf(j)[j.i].oid>>
    IN  [j EXCEPT !.offer_subs = DictPut(@, str(j.chat), MarkNotified(UserSubsOf(j), j.i)),
                  !.any_sent = TRUE,
                  !.okSends = IF ok THEN @ \cup {p} ELSE @,
                  !.failedSends = IF ok THEN @ ELSE @ \cup {p},
                  !.i = @ + 1]

\* lines 798-803: send_message returns or raises; the loop goes on
AfterSend(j, ok) ==
    LET p == <<j.chat, UserSubsOf(j)[j.i].oid>>
    IN  IF ok
        THEN [j EXCEPT !.offer_subs = DictPut(@, str(j.chat), MarkNotified(UserSubsOf(j), j.i)),
                       !.any_sent = TRUE,
                       !.okSends = @ \cup {p},
                       !.i = @ + 1]
        ELSE [j EXCEPT !.failedSends = @ \cup {p}, !.i = @ + 1]

\* ok: send_message returned; saved: the save_json of line 808, if this run
\* reaches it, writes the file
JobSendReturns(ok, saved) ==
    /\ jpc = "await_send" /\ HandlerSuspended
    /\ JobRunsFrom([pc |-> "offers", cache |-> cache, doc |-> doc,
                    job |-> AfterSend(job, ok)], saved)
    /\ sent' = IF ok
               THEN [sent EXCEPT ![<<job.chat, UserSubsOf(job)[job.i].oid>>] = Bump(@)]
               ELSE sent
    /\ UNCHANGED <<now, hpc, hnd, ticks, cmds, calls, fetched, started, given, result>>

JobFetchDone == \E resp \in Responses : JobFetchReturns(resp)

JobSendDone == \E ok \in BOOLEAN, saved \in BOOLEAN : JobSendReturns(ok, saved)

\* line 353 inside 812-816: a failed request raises out of send_free_games and
\* daily_job swallows it
JobDigestFetchDone ==
    /\ jpc = "await_digest_fetch" /\ HandlerSuspended
    /\ \E resp \in Responses :
         LET r == fetch_free_games_finish(cache, now, job.locale, job.country, resp)
         IN  IF r[1].raised
             THEN JobRunsFrom([pc |-> "digest_next", cache |-> r[2], doc |-> doc,
                               job |-> [job EXCEPT !.digestTried = @ \cup {job.chat},
                                                   !.dq = Tail(@)]], TRUE)
             ELSE JobRunsFrom([pc |-> "await_digest_send", cache |-> r[2], doc |-> doc,
                               job |-> [job EXCEPT !.games = r[1].items]], TRUE)
    /\ UNCHANGED <<now, hpc, hnd, sent, ticks, cmds, calls, fetched, started, given, result>>

\* lines 354-415 inside 812-816: the messages of the digest go out, or a send
\* raises out of send_free_games and daily_job swallows it
JobDigestSendDone ==
    /\ jpc = "await_digest_send" /\ HandlerSuspended
    /\ \E ok \in BOOLEAN :
         JobRunsFrom([pc |-> "digest_next", cache |-> cache, doc |-> doc,
                      job |-> [job EXCEPT !.digestTried = @ \cup {job.chat},
                                          !.dq = Tail(@), !.games = <<>>]], TRUE)
    /\ UNCHANGED <<now, hpc, hnd, sent, ticks, cmds, calls, fetched, started, given, result>>

\* -------------------------------------------------------------- handlers
\* Every document mutation of a handler is a synchronous load / modify / save.
StoreCall(op, c, o) ==
    [op |-> op, chat |-> c, oid |-> o,
     again |-> last.op = op /\ last.chat = c /\ last.oid = o]

\* subscribe_cmd, and on_callback "sub:1" (lines 655-666, 707-719); when the
\* chat is already subscribed the handler only replies
SubscribeCmd(c) ==
    /\ hpc = "idle" /\ JobSuspended /\ cmds < MaxCmds
    /\ ~InSeq(doc.chat_ids, c)
    /\ doc' = digest_subscribe(doc, c)
    /\ last' = NoCall
    /\ cmds' = cmds + 1
    /\ UNCHANGED <<cache, now, jpc, job, hpc, hnd, sent, ticks, calls, fetched, started, given, result>>

\* unsubscribe_cmd, and on_callback "sub:0" (lines 669-680, 721-730); when
\* the chat is not subscribed the handler only replies
UnsubscribeCmd(c) ==
    /\ hpc = "idle" /\ JobSuspended /\ cmds < MaxCmds
    /\ InSeq(doc.chat_ids, c)
    /\ doc' = digest_unsubscribe(doc, c)
    /\ last' = NoCall
    /\ cmds' = cmds + 1
    /\ UNCHANGED <<cache, now, jpc, job, hpc, hnd, sent, ticks, calls, fetched, started, given, result>>

\* setlocale_cmd (lines 683-689)
SetLocaleCmd(c, locale) ==
    /\ hpc = "idle" /\ JobSuspended /\ cmds < MaxCmds
    /\ doc' = set_user_pref(doc, c, "locale", locale)
    /\ last' = NoCall
    /\ cmds' = cmds + 1
    /\ UNCHANGED <<cache, now, jpc, job, hpc, hnd, sent, ticks, calls, fetched, started, given, result>>

\* on_callback "offer_unsub:<id>" (lines 756-764)
OfferUnsub(c, o) ==
    /\ hpc = "idle" /\ JobSuspended /\ cmds < MaxCmds
    /\ doc' = unsubscribe_from_offer(doc, c, o)
    /\ last' = StoreCall("unsubscribe", c, o)
    /\ sent' = [sent EXCEPT ![<<c, o>>] = 0]
    /\ cmds' = cmds + 1
    /\ UNCHANGED <<cache, now, jpc, job, hpc, hnd, ticks, calls, fetched, started, given, result>>

\* line 750, which ends the handler's effect on the state
DoSubscribe(c, o) ==
    /\ doc' = subscribe_to_offer(doc, c, o)
    /\ last' = StoreCall("subscribe", c, o)
    /\ sent' = [sent EXCEPT ![<<c, o>>] = 0]
    /\ hpc' = "idle"
    /\ hnd' = IdleHandler

\* line 746 up to the cache lookup, from the cache ch that line 745 left
LookupUpcoming(ch, c, o, locale, country) ==
    LET r == fetch_upcoming_games_begin(ch, now, locale, country)
    IN  /\ cache' = r[2]
        /\ IF r[1].some
           THEN DoSubscribe(c, o)
           ELSE /\ hpc' = "await_upcoming"
                /\ hnd' = [op |-> "offer_sub", chat |-> c, oid |-> o,
                           locale |-> locale, country |-> country]
                /\ UNCHANGED <<doc, last, sent>>

\* on_callback "offer_sub:<id>" (lines 739-750), to its first suspension
OfferSubBegin(c, o) ==
    /\ hpc = "idle" /\ JobSuspended /\ cmds < MaxCmds
    /\ cmds' = cmds + 1
    /\ LET prefs == get_user_prefs(doc, c)
           r == fetch_free_games_begin(cache, now, prefs.locale, prefs.country)
       IN  IF r[1].some
           THEN LookupUpcoming(r[2], c, o, prefs.locale, prefs.country)
           ELSE /\ cache' = r[2]
                /\ hpc' = "await_free"
                /\ hnd' = [op |-> "offer_sub", chat |-> c, oid |-> o,
                           locale |-> prefs.locale, country |-> prefs.country]
                /\ UNCHANGED <<doc, last, sent>>
    /\ UNCHANGED <<now, jpc, job, ticks, calls, fetched, started, given, result>>

\* line 745 returns: an upstream error ends the handler before line 750
OfferSubFreeDone ==
    /\ hpc = "await_free" /\ JobSuspended
    /\ \E resp \in Responses :
         LET r == fetch_free_games_finish(cache, now, hnd.locale, hnd.country, resp)
         IN  IF r[1].raised
             THEN /\ cache' = r[2]
                  /\ hpc' = "idle"
                  /\ hnd' = IdleHandler
                  /\ UNCHANGED <<doc, last, sent>>
             ELSE LookupUpcoming(r[2], hnd.chat, hnd.oid, hnd.locale, hnd.country)
    /\ UNCHANGED <<now, jpc, job, ticks, cmds, calls, fetched, started, given, result>>

\* line 746 returns
OfferSubUpcomingDone ==
    /\ hpc = "await_upcoming" /\ JobSuspended
    /\ \E resp \in UpcomingResponses :
         LET r == fetch_upcoming_games_finish(cache, now, hnd.locale, hnd.country, resp)
         IN  /\ cache' = r[2]
             /\ IF r[1].raised
                THEN /\ hpc' = "idle"
                     /\ hnd' = IdleHandler
                     /\ UNCHANGED <<doc, last, sent>>
                ELSE DoSubscribe(hnd.chat, hnd.oid)
    /\ UNCHANGED <<now, jpc, job, ticks, cmds, calls, fetched, started, given, result>>

\* daily_job has returned or raised: its locals are gone
JobReturn ==
    /\ jpc = "returned"
    /\ jpc' = "idle"
    /\ job' = IdleJob
    /\ UNCHANGED <<doc, cache, now, hpc, hnd, sent, last, ticks, cmds, calls, fetched, started, given, result>>

\* time passes while every coroutine is suspended
AdvanceClock ==
    /\ JobSuspended /\ HandlerSuspended
    /\ \E t \in TimePoints : t > now /\ now' = t
    /\ UNCHANGED <<doc, cache, jpc, job, hpc, hnd, sent, last, ticks, cmds, calls, fetched, started, given, result>>

Next ==
    \/ JobStart
    \/ JobFetchDone
    \/ JobSendDone
    \/ JobDigestFetchDone
    \/ JobDigestSendDone
    \/ JobReturn
    \/ \E c \in ChatIds : SubscribeCmd(c)
    \/ \E c \in ChatIds : UnsubscribeCmd(c)
    \/ \E c \in ChatIds, o \in Offers : OfferUnsub(c, o)
    \/ \E c \in ChatIds, o \in Offers : OfferSubBegin(c, o)
    \/ OfferSubFreeDone
    \/ OfferSubUpcomingDone
    \/ AdvanceClock

Spec == Init /\ [][Next]_vars

\* ------------------------------------------------- the process is restarted
\* main() starts with an empty cache and whatever document is on disk
\* (ensure_files_exist keeps an existing file).  This one is the document
\* after chat 1 subscribed to A and B and a tick delivered A.
DocumentOnDisk ==
    [NewDocument EXCEPT !.offer_subs =
        DictPut(EmptyDict, str(1), <<[oid |-> "A", notified |-> TRUE],
                                     [oid |-> "B", notified |-> FALSE]>>)]

InitRestarted ==
    /\ doc = DocumentOnDisk
    /\ cache = EmptyDict
    /\ now = 0
    /\ jpc = "idle"
    /\ job = IdleJob
    /\ hpc = "idle"
    /\ hnd = IdleHandler
    /\ sent = [p \in ChatIds \X Offers |-> IF p = <<1, "A">> THEN 1 ELSE 0]
    /\ last = NoCall
    /\ ticks = 0
    /\ cmds = 0
    /\ calls = [c \in Callers |-> IdleCall]
    /\ fetched = EmptyDict
    /\ started = 0
    /\ given = NotCalled
    /\ result = NotCalled

SpecRestarted == InitRestarted /\ [][Next]_vars

\* ------------------------------------------------ ticks that keep occurring
\* run_daily fires daily_job every day, without end.  Chat 1 watches A, chat
\* 2 watches B, nobody presses a button, and every catalog the store
\* returns has A free.
WatchingDocument ==
    [NewDocument EXCEPT !.offer_subs =
        DictPut(DictPut(EmptyDict, str(1), <<NewMeta("A")>>), str(2), <<NewMeta("B")>>)]

InitWatching ==
    /\ doc = WatchingDocument
    /\ cache = EmptyDict
    /\ now = 0
    /\ jpc = "idle"
    /\ job = IdleJob
    /\ hpc = "idle"
    /\ hnd = IdleHandler
    /\ sent = [p \in ChatIds \X Offers |-> 0]
    /\ last = NoCall
    /\ ticks = 0
    /\ cmds = 0
    /\ calls = [c \in Callers |-> IdleCall]
    /\ fetched = EmptyDict
    /\ started = 0
    /\ given = NotCalled
    /\ result = NotCalled

ResponsesWithA == {r \in Responses : r.ok /\ "A" \in FreeIds(FreeNow(r.elements, 0))}

\* the tick counter stops at its bound, the ticks do not
DailyTick ==
    /\ ticks' = IF ticks < MaxTicks THEN ticks + 1 ELSE ticks
    /\ JobBegin

JobFetchReturnsWithA == \E resp \in ResponsesWithA : JobFetchReturns(resp)

\* the notification goes out and the document is saved
Delivered(c) == job.chat = c /\ JobSendReturns(TRUE, TRUE)

NextDaily ==
    \/ DailyTick
    \/ JobFetchReturnsWithA
    \/ JobSendDone
    \/ JobReturn
    \/ AdvanceClock

\* The event loop runs every coroutine that can run (weak fairness of the
\* job's steps and of the daily trigger); a delivery to a chat that is
\* attempted again and again does not fail forever, and neither does the
\* save that follows it (strong fairness of Delivered).
SpecDaily ==
    /\ InitWatching /\ [][NextDaily]_vars
    /\ WF_vars(DailyTick) /\ WF_vars(JobFetchReturnsWithA)
    /\ WF_vars(JobSendDone) /\ WF_vars(JobReturn)
    /\ \A c \in ChatIds : SF_vars(Delivered(c))

\* ------------------------------------------------------------ the cache model
\* fetch_free_games / fetch_upcoming_games called by two coroutines with any
\* locale, interleaved at the network await.  An entry stored at 0 is still
\* served at 600 and has expired at 601.
CacheTimePoints == {0, 600, 601}
Kinds == {"current", "upcoming"}
CacheResponses ==
    {[ok |-> TRUE, elements |-> Catalog({})], [ok |-> TRUE, elements |-> Catalog({"A"})],
     UpstreamError}

mainVars == <<doc, jpc, job, hpc, hnd, sent, last, ticks, cmds, given, result>>

\* lines 115-117 / 166-168: the call up to its network await; a cache hit
\* returns at once
CallBegin(c, kind, locale, country) ==
    /\ calls[c].state # "await"
    /\ started < MaxCalls
    /\ started' = started + 1
    /\ LET r == IF kind = "current"
                THEN fetch_free_games_begin(cache, now, locale, country)
                ELSE fetch_upcoming_games_begin(cache, now, locale, country)
           k == <<kind, locale, country>>
           prior == IF k \in DOMAIN fetched
                    THEN [valid |-> TRUE, at |-> fetched[k].at, items |-> fetched[k].items]
                    ELSE NoFetch
           call == [state |-> "await", kind |-> kind, locale |-> locale,
                    country |-> country, start |-> now, reqs |-> 1,
                    items |-> <<>>, prior |-> prior]
       IN  /\ cache' = r[2]
           /\ calls' = [calls EXCEPT ![c] =
                    IF r[1].some
                    THEN [call EXCEPT !.state = "returned", !.reqs = 0, !.items = r[1].items]
                    ELSE call]
    /\ UNCHANGED <<now, fetched>>
    /\ UNCHANGED mainVars

\* lines 119-162 / 170-213: the response arrives
CallResponse(c, resp) ==
    /\ calls[c].state = "await"
    /\ LET call == calls[c]
           r == IF call.kind = "current"
                THEN fetch_free_games_finish(cache, now, call.locale, call.country, resp)
                ELSE fetch_upcoming_games_finish(cache, now, call.locale, call.country, resp)
       IN  /\ cache' = r[2]
           /\ calls' = [calls EXCEPT ![c] =
                    IF r[1].raised THEN [call EXCEPT !.state = "raised"]
                    ELSE [call EXCEPT !.state = "returned", !.items = r[1].items]]
           /\ fetched' = IF r[1].raised THEN fetched
                         ELSE DictPut(fetched, <<call.kind, call.locale, call.country>>,
                                      [at |-> now, items |-> r[1].items])
    /\ UNCHANGED <<now, started>>
    /\ UNCHANGED mainVars

\* time passes while the coroutines are suspended
CacheClock ==
    /\ \E t \in CacheTimePoints : t > now /\ now' = t
    /\ UNCHANGED <<cache, calls, fetched, started, given, result>>
    /\ UNCHANGED mainVars

NextCache ==
    \/ \E c \in Callers, kind \in Kinds, locale \in Locales :
          CallBegin(c, kind, locale, "US")
    \/ \E c \in Callers, resp \in CacheResponses : CallResponse(c, resp)
    \/ CacheClock

SpecCache == Init /\ [][NextCache]_vars


\* --------------------------------------------------- the classifier model
\* One call of fetch_free_games or fetch_upcoming_games on an empty cache,
\* for any short list of elements the store can return.  The clock stands at
\* Noon; a date is before it, on it or after it.  Every date string that
\* parses carries a UTC offset (the store writes "Z"; a string without one
\* parses to a naive datetime, which is left out here).
MaxElements == 2

Noon == 1000
ClassifierTimes == {Noon}
Earlier == Date(Noon - 500, 0)
AtNoon == Date(Noon, 0)
Later == Date(Noon + 1000, 0)
\* wall time ahead of Later's, instant before it
LaterEast == Date(Noon + 4000, 3600)
\* the same instant as Later, written with another offset
LaterSameInstant == Date(Noon + 4600, 3600)

Window(s, e) == [startDate |-> s, endDate |-> e]

\* windows of promotions.promotionalOffers: open, running, starting now,
\* ending now, ended, not yet started, and with a malformed date
CurrentWindowSamples ==
    {Window(NoDate, NoDate), Window(Earlier, Later), Window(AtNoon, NoDate),
     Window(Earlier, AtNoon), Window(NoDate, Earlier), Window(Later, NoDate),
     Window(Later, BadDate), Window(BadDate, Earlier)}

\* windows of promotions.upcomingPromotionalOffers: only startDate is read
UpcomingWindowSamples ==
    {Window(s, NoDate) :
        s \in {NoDate, BadDate, Earlier, AtNoon, Later, LaterEast, LaterSameInstant}}

\* the offers of one element: none, one without windows, one with one or two
\* windows, or two with a window each
OfferLists(W) ==
    {<<>>, << <<>> >>}
        \cup {<< <<w>> >> : w \in W}
        \cup {<< <<v, w>> >> : v, w \in W}
        \cup {<< <<Window(Later, NoDate)>>, <<w>> >> : w \in W}

\* element lists of the response; the element at position i has id i
PositionId(i) == str(i)
ElementLists(kind) ==
    LET W == IF kind = "current" THEN CurrentWindowSamples ELSE UpcomingWindowSamples
        ElementAt(i, offers) ==
            [id |-> PositionId(i), items |-> <<>>,
             current  |-> IF kind = "current" THEN offers ELSE <<>>,
             upcoming |-> IF kind = "current" THEN <<>> ELSE offers]
    IN  UNION {{[i \in 1..n |-> ElementAt(i, f[i])] : f \in [1..n -> OfferLists(W)]}
                : n \in 0..MaxElements}

programVars ==
    <<doc, jpc, job, hpc, hnd, sent, last, ticks, cmds, calls, fetched, started>>

InitClassifier ==
    /\ doc = NewDocument
    /\ cache = EmptyDict
    /\ now \in ClassifierTimes
    /\ jpc = "idle"
    /\ job = IdleJob
    /\ hpc = "idle"
    /\ hnd = IdleHandler
    /\ sent = [p \in ChatIds \X Offers |-> 0]
    /\ last = NoCall
    /\ ticks = 0
    /\ cmds = 0
    /\ calls = [c \in Callers |-> IdleCall]
    /\ fetched = EmptyDict
    /\ started = 0
    /\ \E kind \in Kinds :
         given \in {[fn |-> kind, elements |-> es] : es \in ElementLists(kind)}
    /\ result = NotCalled

\* lines 114-162: the call misses the empty cache and the store answers with
\* the given elements
FetchFree ==
    /\ given.fn = "current" /\ result = NotCalled
    /\ LET r == fetch_free_games_finish(cache, now, "en-US", "US",
                                        [ok |-> TRUE, elements |-> given.elements])
       IN  /\ cache' = r[2]
           /\ result' = [fn |-> "current", raised |-> r[1].raised, items |-> r[1].items]
    /\ UNCHANGED <<now, given>>
    /\ UNCHANGED programVars

\* lines 165-213
FetchUpcoming ==
    /\ given.fn = "upcoming" /\ result = NotCalled
    /\ LET r == fetch_upcoming_games_finish(cache, now, "en-US", "US",
                                            [ok |-> TRUE, elements |-> given.elements])
       IN  /\ cache' = r[2]
           /\ result' = [fn |-> "upcoming", raised |-> r[1].raised, items |-> r[1].items]
    /\ UNCHANGED <<now, given>>
    /\ UNCHANGED programVars

NextClassifier == FetchFree \/ FetchUpcoming

SpecClassifier == InitClassifier /\ [][NextClassifier]_vars

\* ------------------------------------------------------ store URL and slug
\* A slug is a string; it is modelled as the sequence of its pieces, where a
\* piece is a "/", a blank, or a word that contains neither.  The empty
\* sequence stands for a missing or empty field (both are falsy).
SlugTokens == {"/", "p", "bundles", "store", "x", " "}
PathPrefixes == {"p", "bundles", "store"}
StoreRoot == <<"https://store.epicgames.com/">>

RECURSIVE DropLeading(_, _)
DropLeading(s, T) ==
    IF s # <<>> /\ Head(s) \in T THEN DropLeading(Tail(s), T) ELSE s

RECURSIVE DropTrailing(_, _)
DropTrailing(s, T) ==
    IF s # <<>> /\ s[Len(s)] \in T THEN DropTrailing(SubSeq(s, 1, Len(s) - 1), T) ELSE s

\* str.lower() on the pageType values of the model
Lower(s) == IF s \in {"productHome", "PRODUCTHOME"} THEN "producthome" ELSE s

\* lines 236-240
slug_to_url(slug, locale) ==
    LET s == DropLeading(slug, {"/"})
        qualified == Len(s) >= 2 /\ s[1] \in PathPrefixes /\ s[2] = "/"
    IN  <<"https://store.epicgames.com/", locale, "/">>
            \o (IF qualified THEN s ELSE <<"p", "/">> \o s)

\* a variant with one loop over the mappings, taking the first that has a slug
build_store_url_first_mapping(el, locale) ==
    LET any == SelectSeq(el.mappings, LAMBDA m : m.pageSlug # <<>>)
        offer == SelectSeq(el.offerMappings, LAMBDA m : m.pageSlug # <<>>)
    IN  IF any # <<>> THEN slug_to_url(Head(any).pageSlug, locale)
        ELSE IF offer # <<>> THEN slug_to_url(Head(offer).pageSlug, locale)
        ELSE IF el.productSlug # <<>> THEN slug_to_url(el.productSlug, locale)
        ELSE IF el.urlSlug # <<>> THEN slug_to_url(el.urlSlug, locale)
        ELSE StoreRoot

\* lines 242-268: each loop returns at its first match
build_store_url(el, locale) ==
    LET home == SelectSeq(el.mappings,
                    LAMBDA m : Lower(m.pageType) = "producthome" /\ m.pageSlug # <<>>)
        any == SelectSeq(el.mappings, LAMBDA m : m.pageSlug # <<>>)
        offer == SelectSeq(el.offerMappings, LAMBDA m : m.pageSlug # <<>>)
    IN  IF home # <<>> THEN slug_to_url(Head(home).pageSlug, locale)
        ELSE IF any # <<>> THEN slug_to_url(Head(any).pageSlug, locale)
        ELSE IF offer # <<>> THEN slug_to_url(Head(offer).pageSlug, locale)
        ELSE IF el.productSlug # <<>> THEN slug_to_url(el.productSlug, locale)
        ELSE IF el.urlSlug # <<>> THEN slug_to_url(el.urlSlug, locale)
        ELSE StoreRoot

\* an optional string: Python's None or a string
AbsentSlug == [some |-> FALSE, slug |-> <<>>]
SomeSlug(s) == [some |-> TRUE, slug |-> s]

\* lines 419-425: strip(), lstrip("/"), split("/"), drop parts[0] when it is
\* one of the path prefixes, join
normalize_slug(slug) ==
    LET s == DropLeading(DropTrailing(DropLeading(slug, {" "}), {" "}), {"/"})
        slashes == {i \in 1..Len(s) : s[i] = "/"}
        cut == IF slashes = {} THEN Len(s) + 1
               ELSE CHOOSE i \in slashes : \A k \in slashes : i <= k
        first == SubSeq(s, 1, cut - 1)
    IN  IF Len(first) = 1 /\ first[1] \in PathPrefixes
        THEN SubSeq(s, cut + 1, Len(s))
        ELSE s

\* lines 427-447
get_page_slug(el) ==
    LET home == SelectSeq(el.mappings,
                    LAMBDA m : Lower(m.pageType) = "producthome" /\ m.pageSlug # <<>>)
        any == SelectSeq(el.mappings, LAMBDA m : m.pageSlug # <<>>)
        offer == SelectSeq(el.offerMappings, LAMBDA m : m.pageSlug # <<>>)
    IN  IF home # <<>> THEN SomeSlug(normalize_slug(Head(home).pageSlug))
        ELSE IF any # <<>> THEN SomeSlug(normalize_slug(Head(any).pageSlug))
        ELSE IF offer # <<>> THEN SomeSlug(normalize_slug(Head(offer).pageSlug))
        ELSE IF el.productSlug # <<>> THEN SomeSlug(normalize_slug(el.productSlug))
        ELSE IF el.urlSlug # <<>> THEN SomeSlug(normalize_slug(el.urlSlug))
        ELSE AbsentSlug

\* Elements of the slug model.  In the first family every source of a slug
\* is present or not, each with a slug (and URL) of its own; in the second
\* the element has only a productSlug, which is any short string.
MaxMappings == 2
MaxSlugLen == 3

PageTypes == {"productHome", "PRODUCTHOME", "generic", ""}
MappingSamples ==
    {[pageType |-> ty, pageSlug |-> s] :
        ty \in PageTypes, s \in {<<>>, <<"x">>, <<"bundles", "/", "x">>}}
OfferMappingSamples ==
    {<<>>, <<[pageSlug |-> <<>>]>>, <<[pageSlug |-> <<"store", "/", "x">>]>>,
     <<[pageSlug |-> <<>>], [pageSlug |-> <<"store", "/", "x">>]>>}
SeqsUpTo(S, n) == UNION {[1..k -> S] : k \in 0..n}

StructureElements ==
    {[mappings |-> ms, offerMappings |-> om, productSlug |-> ps, urlSlug |-> us] :
        ms \in SeqsUpTo(MappingSamples, MaxMappings),
        om \in OfferMappingSamples,
        ps \in {<<>>, <<"p", "/", "store">>},
        us \in {<<>>, <<"/", "bundles">>}}
SlugElements ==
    {[mappings |-> <<>>, offerMappings |-> <<>>, productSlug |-> ps, urlSlug |-> <<>>] :
        ps \in SeqsUpTo(SlugTokens, MaxSlugLen)}

Unset == [set |-> FALSE]

InitSlugs ==
    /\ doc = NewDocument
    /\ cache = EmptyDict
    /\ now = 0
    /\ jpc = "idle"
    /\ job = IdleJob
    /\ hpc = "idle"
    /\ hnd = IdleHandler
    /\ sent = [p \in ChatIds \X Offers |-> 0]
    /\ last = NoCall
    /\ ticks = 0
    /\ cmds = 0
    /\ calls = [c \in Callers |-> IdleCall]
    /\ fetched = EmptyDict
    /\ started = 0
    /\ given \in {[fn |-> "slugs", el |-> el, locale |-> locale] :
                    el \in StructureElements \cup SlugElements, locale \in Locales}
    /\ result = [fn |-> "slugs", url |-> Unset, page_slug |-> Unset]

\* line 360
BuildStoreUrl ==
    /\ result.fn = "slugs" /\ result.url = Unset
    /\ result' = [result EXCEPT
                    !.url = [set |-> TRUE, value |-> build_store_url(given.el, given.locale)]]
    /\ UNCHANGED <<cache, now, given>>
    /\ UNCHANGED programVars

\* line 365
GetPageSlug ==
    /\ result.fn = "slugs" /\ result.page_slug = Unset
    /\ result' = [result EXCEPT
                    !.page_slug = [set |-> TRUE, value |-> get_page_slug(given.el)]]
    /\ UNCHANGED <<cache, now, given>>
    /\ UNCHANGED programVars

NextSlugs == BuildStoreUrl \/ GetPageSlug

SpecSlugs == InitSlugs /\ [][NextSlugs]_vars

\* ------------------------------------------------------- the file on disk
\* subscribers.json is missing, holds something json.load rejects, or holds a
\* document.
MissingFile == [exists |-> FALSE]
CorruptFile == [exists |-> TRUE, json |-> FALSE]

\* lines 52-54: <<file afterwards, raised>>; saved tells whether save_json
\* can write the file
ensure_files_exist(file, saved) ==
    IF file # MissingFile THEN <<file, FALSE>>
    ELSE IF saved THEN <<NewDocument, FALSE>>
    ELSE <<MissingFile, TRUE>>

\* lines 37-44
load_json(file, default) ==
    IF file = MissingFile \/ file = CorruptFile THEN default ELSE file

\* lines 271-279 as a call on the file: <<outcome, file afterwards>>
get_user_prefs_on_file(file, chat_id, saved) ==
    LET e == ensure_files_exist(file, saved)
    IN  IF e[2] THEN <<[raised |-> TRUE], e[1]>>
        ELSE <<[raised |-> FALSE,
                prefs |-> get_user_prefs(load_json(e[1], NewDocument), chat_id)],
               e[1]>>

\* what "users" can hold for one chat: nothing, or a map with either field
\* stored or not
Countries == {"US", "DE"}
StoredPrefs ==
    {EmptyDict}
        \cup {DictPut(EmptyDict, "locale", l) : l \in Locales}
        \cup {DictPut(EmptyDict, "country", c) : c \in Countries}
        \cup {DictPut(DictPut(EmptyDict, "locale", l), "country", c) :
                l \in Locales, c \in Countries}
UsersMaps == UNION {[S -> StoredPrefs] : S \in SUBSET {str(c) : c \in ChatIds}}
PrefsFiles ==
    {MissingFile, CorruptFile}
        \cup {[NewDocument EXCEPT !.users = u] : u \in UsersMaps}

InitPrefs ==
    /\ doc \in PrefsFiles
    /\ cache = EmptyDict
    /\ now = 0
    /\ jpc = "idle"
    /\ job = IdleJob
    /\ hpc = "idle"
    /\ hnd = IdleHandler
    /\ sent = [p \in ChatIds \X Offers |-> 0]
    /\ last = NoCall
    /\ ticks = 0
    /\ cmds = 0
    /\ calls = [c \in Callers |-> IdleCall]
    /\ fetched = EmptyDict
    /\ started = 0
    /\ given \in {[fn |-> "get_user_prefs", chat_id |-> c, file |-> doc] : c \in ChatIds}
    /\ result = NotCalled

GetUserPrefs ==
    /\ given.fn = "get_user_prefs" /\ result = NotCalled
    /\ \E saved \in BOOLEAN :
         LET r == get_user_prefs_on_file(doc, given.chat_id, saved)
         IN  /\ doc' = r[2]
             /\ result' = [fn |-> "get_user_prefs", out |-> r[1]]
    /\ UNCHANGED <<cache, now, jpc, job, hpc, hnd, sent, last, ticks, cmds,
                   calls, fetched, started, given>>

NextPrefs == GetUserPrefs

SpecPrefs == InitPrefs /\ [][NextPrefs]_vars

\* ------------------------------------------------------ the trailer lookup
\* A page slug is the sequence of its pieces; a piece "-" plus six hex digits
\* at the end is what the pattern of line 453 matches (in either case).
HexSuffixes == {"-a1b2c3", "-A1B2C3"}
PageSlugs ==
    {<<"game">>, <<"game", "-a1b2c3">>, <<"game", "-A1B2C3">>, <<"game", "-zzzzzz">>,
     <<"-a1b2c3">>}
Namespaces == {"", "ns"}
TrailerLocales == {"en-US", "en", "de"}

\* line 451
locales_to_try(locale) == <<locale, "en", "en-GB">>

\* line 453
strip_hex_suffix(page_slug) ==
    IF page_slug[Len(page_slug)] \in HexSuffixes
    THEN SubSeq(page_slug, 1, Len(page_slug) - 1)
    ELSE page_slug

\* lines 452-461
slug_candidates(page_slug, namespace) ==
    LET stripped == strip_hex_suffix(page_slug)
        plain == IF stripped # <<>> /\ stripped # page_slug
                 THEN <<page_slug, stripped>> ELSE <<page_slug>>
    IN  IF namespace = "" THEN plain
        ELSE plain \o <<<<namespace, "/">> \o page_slug>>
                   \o (IF stripped # <<>> THEN <<<<namespace, "/">> \o stripped>> ELSE <<>>)

\* What one request to the content endpoint gives: an error (status, body
\* that is not JSON, timeout), a JSON document, or the JSON value null, for
\* which resp.json() returns None
ContentOutcomes == {"error", "document", "null"}

\* lines 465-482, from one response to the next request or to the return:
\* a response sets data and breaks the inner loop, an exception clears data
\* and goes to the next slug; after the inner loop, data that is not None
\* breaks the outer loop
TrailerAfter(r, outcome, nslugs, nlocales) ==
    LET tried == [r EXCEPT !.log = Append(@, [li |-> r.li, si |-> r.si, outcome |-> outcome])]
        nextLocale == IF r.li < nlocales
                      THEN [tried EXCEPT !.li = r.li + 1, !.si = 1]
                      ELSE [tried EXCEPT !.pc = "returned", !.out = "absent"]
    IN  IF outcome = "document" THEN [tried EXCEPT !.pc = "returned", !.out = "resolved"]
        ELSE IF outcome = "null" THEN nextLocale
        ELSE IF r.si < nslugs THEN [tried EXCEPT !.si = r.si + 1]
        ELSE nextLocale

InitTrailer ==
    /\ doc = NewDocument
    /\ cache = EmptyDict
    /\ now = 0
    /\ jpc = "idle"
    /\ job = IdleJob
    /\ hpc = "idle"
    /\ hnd = IdleHandler
    /\ sent = [p \in ChatIds \X Offers |-> 0]
    /\ last = NoCall
    /\ ticks = 0
    /\ cmds = 0
    /\ calls = [c \in Callers |-> IdleCall]
    /\ fetched = EmptyDict
    /\ started = 0
    /\ given \in {[fn |-> "fetch_trailer_urls", page_slug |-> s, locale |-> l,
                   namespace |-> ns] :
                    s \in PageSlugs, l \in TrailerLocales, ns \in Namespaces}
    /\ result = NotCalled

\* lines 450-470: the call builds its lists and sends the first request
TrailerCall ==
    /\ given.fn = "fetch_trailer_urls" /\ result = NotCalled
    /\ result' = [fn |-> "fetch_trailer_urls", pc |-> "request", li |-> 1, si |-> 1,
                  log |-> <<>>, out |-> "pending"]
    /\ UNCHANGED <<cache, now, given>>
    /\ UNCHANGED programVars

\* lines 470-482: the request out is answered
TrailerResponse ==
    /\ result.fn = "fetch_trailer_urls" /\ result.pc = "request"
    /\ \E outcome \in ContentOutcomes :
         result' = TrailerAfter(result, outcome,
                                Len(slug_candidates(given.page_slug, given.namespace)),
                                Len(locales_to_try(given.locale)))
    /\ UNCHANGED <<cache, now, given>>
    /\ UNCHANGED programVars

NextTrailer == TrailerCall \/ TrailerResponse

SpecTrailer == InitTrailer /\ [][NextTrailer]_vars

\* ------------------------------------------------- the content document scan
\* A JSON value is a tagged record: a string (s, the sequence of its pieces),
\* a list (c, its items), a map (k and c, the keys and values of its entries
\* in document order, as Python dicts keep them) or null.
StrNode(s) == [t |-> "str", s |-> s, k |-> <<>>, c |-> <<>>]
ListNode(items) == [t |-> "list", s |-> <<>>, k |-> <<>>, c |-> items]
DictNode(entries) ==
    [t |-> "dict", s |-> <<>>, k |-> [i \in 1..Len(entries) |-> entries[i].k],
     c |-> [i \in 1..Len(entries) |-> entries[i].v]]
NullNode == [t |-> "null", s |-> <<>>, k |-> <<>>, c |-> <<>>]
Entry(k, v) == [k |-> k, v |-> v]

NoLink == [some |-> FALSE, url |-> <<>>]
Link(s) == [some |-> TRUE, url |-> s]

\* Python's `a or b` on two optional links (a link found is never empty)
or_later(a, b) == IF b.some THEN b ELSE a
or_else(a, b) == IF a.some THEN a ELSE b

\* key in obj / obj.get(key) / bool(value)
HasEntry(obj, key) == \E i \in 1..Len(obj.k) : obj.k[i] = key
EntryOf(obj, key) ==
    IF HasEntry(obj, key)
    THEN obj.c[CHOOSE i \in 1..Len(obj.k) : obj.k[i] = key]
    ELSE NullNode
Truthy(node) == node.s # <<>> \/ node.c # <<>>

\* str.strip() and str.lower() on the pieces of the model
Strip(s) == DropTrailing(DropLeading(s, {" "}), {" "})
LowerCase(s) == [i \in 1..Len(s) |-> IF s[i] = ".MP4" THEN ".mp4" ELSE s[i]]

\* lines 499, 514: the test for a direct video, on a lowered string
LooksDirect(low) ==
    \/ low # <<>> /\ low[Len(low)] \in {".mp4", ".webm", ".mov"}
    \/ \E i \in 1..Len(low) : low[i] = ".mp4"
\* line 516
LooksYoutube(low) == \E i \in 1..Len(low) : low[i] \in {"youtube.com", "youtu.be"}

\* lines 494-503
RECURSIVE pick_from(_, _)
pick_from(sources, i) ==
    IF i > Len(sources) THEN NoLink
    ELSE LET src == sources[i]
             first == IF Truthy(src) THEN EntryOf(src, "src") ELSE NullNode
             url == IF Truthy(first) THEN first
                    ELSE IF Truthy(src) THEN EntryOf(src, "url") ELSE NullNode
         IN  IF url.t = "str" /\ LooksDirect(LowerCase(url.s)) THEN Link(url.s)
             ELSE pick_from(sources, i + 1)
pick_from_sources(sources) ==
    IF sources.t # "list" THEN NoLink ELSE pick_from(sources.c, 1)

\* lines 510-517, on the accumulator acc = [direct, yt]
consider(value, acc) ==
    LET v == Strip(value)
        low == LowerCase(v)
        d == IF LooksDirect(low) /\ ~acc.direct.some THEN Link(v) ELSE acc.direct
        y == IF LooksYoutube(low) /\ ~acc.yt.some THEN Link(v) ELSE acc.yt
    IN  [direct |-> d, yt |-> y]

\* lines 519-535: the known fields of a map, in the order of the code
Hints(obj) ==
    LET a0 == [direct |-> NoLink, yt |-> NoLink]
        a1 == IF EntryOf(obj, "provider") = StrNode(<<"youtube">>) /\ Truthy(EntryOf(obj, "id"))
              THEN [a0 EXCEPT !.yt = Link(<<"https://youtu.be/">> \o EntryOf(obj, "id").s)]
              ELSE a0
        a2 == IF Truthy(EntryOf(obj, "youTubeUrl")) /\ ~a1.yt.some
              THEN consider(EntryOf(obj, "youTubeUrl").s, a1) ELSE a1
        a3 == IF Truthy(EntryOf(obj, "youtubeUrl")) /\ ~a2.yt.some
              THEN consider(EntryOf(obj, "youtubeUrl").s, a2) ELSE a2
        a4 == IF Truthy(EntryOf(obj, "videoUrl")) /\ ~a3.direct.some
              THEN consider(EntryOf(obj, "videoUrl").s, a3) ELSE a3
        a5 == IF EntryOf(obj, "video").t = "dict"
              THEN [a4 EXCEPT !.direct =
                        or_else(@, pick_from_sources(EntryOf(EntryOf(obj, "video"), "sources")))]
              ELSE a4
    IN  IF HasEntry(obj, "sources")
        THEN [a5 EXCEPT !.direct = or_else(@, pick_from_sources(EntryOf(obj, "sources")))]
        ELSE a5

\* lines 506-549.  ScanFrom folds the loop of lines 537-541 (values of a map
\* that are maps or lists) or of lines 543-546 (items of a list) from
\* position i on with the accumulator acc.
RECURSIVE scan_modules(_)
RECURSIVE ScanFrom(_, _, _, _)
ScanFrom(children, i, acc, onlyContainers) ==
    IF i > Len(children) THEN acc
    ELSE IF onlyContainers /\ children[i].t \notin {"dict", "list"}
    THEN ScanFrom(children, i + 1, acc, onlyContainers)
    ELSE LET r == scan_modules(children[i])
         IN  ScanFrom(children, i + 1,
                      [direct |-> or_else(acc.direct, r.direct), yt |-> or_else(acc.yt, r.yt)],
                      onlyContainers)
scan_modules(obj) ==
    CASE obj.t = "dict" ->
            ScanFrom(obj.c, 1, Hints(obj), TRUE)
      [] obj.t = "list" ->
            ScanFrom(obj.c, 1, [direct |-> NoLink, yt |-> NoLink], FALSE)
      [] obj.t = "str" -> consider(obj.s, [direct |-> NoLink, yt |-> NoLink])
      [] OTHER -> [direct |-> NoLink, yt |-> NoLink]

\* The documents of the model.  Strings: plain, a direct video by its end, by
\* a ".mp4" inside (in capitals, with blanks around), ".webm" not at the end,
\* a YouTube address, and one that is both
MaxItems == 2
PlainString == <<"x">>
StringSamples ==
    {PlainString, <<"x", ".mp4">>, <<" ", "x", ".MP4", "x", " ">>, <<"x", ".webm">>,
     <<".webm", "x">>, <<"youtube.com", "x">>, <<"youtu.be", "x", ".mov">>}
Leaves == {StrNode(s) : s \in StringSamples} \cup {NullNode}
HintKeys == {"youTubeUrl", "youtubeUrl", "videoUrl"}
\* one entry of a map, under a known field or another key; the known fields
\* hold a string or null
EntriesOver(values) == {Entry(k, v) : k \in HintKeys \cup {"title"}, v \in values}
SourcesSamples ==
    {ListNode(<<DictNode(<<Entry("src", StrNode(<<"x", ".webm">>))>>)>>),
     ListNode(<<NullNode, DictNode(<<Entry("src", StrNode(PlainString)),
                                      Entry("url", StrNode(<<"x", ".mp4">>))>>)>>)}
ShapedDicts ==
    {DictNode(<<Entry("provider", StrNode(<<"youtube">>)), Entry("id", StrNode(PlainString))>>),
     DictNode(<<Entry("provider", StrNode(<<"youtube">>)), Entry("id", StrNode(PlainString)),
                Entry("youTubeUrl", StrNode(<<"youtube.com", "x">>))>>)}
      \cup {DictNode(<<Entry("sources", s)>>) : s \in SourcesSamples}
      \cup {DictNode(<<Entry("video", DictNode(<<Entry("sources", s)>>))>>) : s \in SourcesSamples}
ShallowNodes ==
    {ListNode(q) : q \in SeqsUpTo(Leaves, MaxItems)}
      \cup {DictNode(<<e>>) : e \in EntriesOver(Leaves)}
      \cup ShapedDicts
\* what a deeper document nests: a leaf, or a shallow node with one child
MatchingLeaves ==
    {StrNode(<<"x", ".mp4">>), StrNode(<<"youtube.com", "x">>), StrNode(<<"youtu.be", "x", ".mov">>)}
NestedNodes ==
    Leaves \cup ShapedDicts
      \cup {ListNode(<<l>>) : l \in Leaves}
      \cup {DictNode(<<e>>) : e \in EntriesOver(MatchingLeaves)}
DeepNodes ==
    {ListNode(q) : q \in SeqsUpTo(NestedNodes, MaxItems)}
      \cup {DictNode(<<Entry("modules", n), e>>) : n \in NestedNodes, e \in EntriesOver(Leaves)}
      \cup {DictNode(<<e, Entry("modules", n)>>) : n \in NestedNodes, e \in EntriesOver(Leaves)}
ContentNodes == Leaves \cup ShallowNodes \cup DeepNodes

InitScan ==
    /\ doc = NewDocument
    /\ cache = EmptyDict
    /\ now = 0
    /\ jpc = "idle"
    /\ job = IdleJob
    /\ hpc = "idle"
    /\ hnd = IdleHandler
    /\ sent = [p \in ChatIds \X Offers |-> 0]
    /\ last = NoCall
    /\ ticks = 0
    /\ cmds = 0
    /\ calls = [c \in Callers |-> IdleCall]
    /\ fetched = EmptyDict
    /\ started = 0
    /\ given \in {[fn |-> "scan_modules", obj |-> n] : n \in ContentNodes}
    /\ result = NotCalled

\* lines 506-549: one call of scan_modules
ScanModules ==
    /\ given.fn = "scan_modules" /\ result = NotCalled
    /\ result' = [fn |-> "scan_modules", direct |-> scan_modules(given.obj).direct,
                  yt |-> scan_modules(given.obj).yt]
    /\ UNCHANGED <<cache, now, given>>
    /\ UNCHANGED programVars

NextScan == ScanModules

SpecScan == InitScan /\ [][NextScan]_vars

\* ------------------------------------------------------ send_free_games
\* Lines 352-415 from the point where the list of free games is known.  A
\* game of the model says whether pick_image_url finds an image and whether
\* get_page_slug finds a slug.  r is the coroutine: the game it works on (i),
\* the await it is suspended at (pc), whether a trailer was found, the sends
\* so far (log) and how the call ended (out).
GameSamples == {[image |-> im, slug |-> sl] : im, sl \in BOOLEAN}
SendOutcomes == {"ok", "fails"}
\* fetch_trailer_urls raises, returns no direct video, or returns one
LookupOutcomes == {"raises", "none", "url"}

Logged(r, kind, outcome) ==
    [r EXCEPT !.log = Append(@, [i |-> r.i, kind |-> kind, ok |-> outcome = "ok"])]

\* lines 380-381 / 393-394: after the caption went out (or the loop start)
\* choose the first await of game i
GameBegins(r, games, i) ==
    IF i > Len(games) THEN [r EXCEPT !.i = i, !.pc = "done", !.out = "returned"]
    ELSE IF games[i].slug THEN [r EXCEPT !.i = i, !.pc = "lookup", !.trailer = FALSE]
    ELSE IF games[i].image THEN [r EXCEPT !.i = i, !.pc = "photo", !.trailer = FALSE]
    ELSE [r EXCEPT !.i = i, !.pc = "text", !.trailer = FALSE]

\* lines 411-415
CaptionSent(r, games) ==
    IF r.trailer THEN [r EXCEPT !.pc = "video"] ELSE GameBegins(r, games, r.i + 1)

\* a variant that swallows a failed photo send
PhotoFailedSilently(r, games) == CaptionSent(r, games)
\* lines 396-402: the except branch of send_photo sends the caption as text
PhotoFailed(r, games) == [r EXCEPT !.pc = "text"]

\* One await of send_free_games returns or raises
SendAfter(r, games, outcome) ==
    CASE r.pc = "none" ->
            IF outcome = "ok"
            THEN [Logged(r, "none", outcome) EXCEPT !.pc = "done", !.out = "returned"]
            ELSE [Logged(r, "none", outcome) EXCEPT !.pc = "done", !.out = "raised"]
      [] r.pc = "lookup" ->
            \* lines 366-369, then the tests of lines 372 and 385
            LET found == [r EXCEPT !.trailer = (outcome = "url"),
                                   !.failed = @ \cup (IF outcome = "raises" THEN {r.i} ELSE {})]
            IN  IF games[r.i].image /\ found.trailer THEN [found EXCEPT !.pc = "media_group"]
                ELSE IF games[r.i].image THEN [found EXCEPT !.pc = "photo"]
                ELSE [found EXCEPT !.pc = "text"]
      [] r.pc = "media_group" ->
            \* lines 377-382; an image is there, so line 385 goes to send_photo
            IF outcome = "ok" THEN GameBegins(Logged(r, "media_group", outcome), games, r.i + 1)
            ELSE [Logged(r, "media_group", outcome) EXCEPT !.pc = "photo"]
      [] r.pc = "photo" ->
            IF outcome = "ok" THEN CaptionSent(Logged(r, "photo", outcome), games)
            ELSE PhotoFailed(Logged(r, "photo", outcome), games)
      [] r.pc = "text" ->
            \* lines 397-409: not inside a try
            IF outcome = "ok" THEN CaptionSent(Logged(r, "text", outcome), games)
            ELSE [Logged(r, "text", outcome) EXCEPT !.pc = "done", !.out = "raised"]
      [] r.pc = "video" ->
            \* lines 411-415
            GameBegins(Logged(r, "video", outcome), games, r.i + 1)

InitSend ==
    /\ doc = NewDocument
    /\ cache = EmptyDict
    /\ now = 0
    /\ jpc = "idle"
    /\ job = IdleJob
    /\ hpc = "idle"
    /\ hnd = IdleHandler
    /\ sent = [p \in ChatIds \X Offers |-> 0]
    /\ last = NoCall
    /\ ticks = 0
    /\ cmds = 0
    /\ calls = [c \in Callers |-> IdleCall]
    /\ fetched = EmptyDict
    /\ started = 0
    /\ given \in {[fn |-> "send_free_games", games |-> g] :
                    g \in SeqsUpTo(GameSamples, MaxElements)}
    /\ result = NotCalled

\* lines 354-358: the games are there; an empty list sends the one message
SendBegin ==
    /\ given.fn = "send_free_games" /\ result = NotCalled
    /\ LET r0 == [fn |-> "send_free_games", i |-> 0, pc |-> "none", trailer |-> FALSE,
                  failed |-> {}, log |-> <<>>, out |-> "pending"]
       IN  result' = IF given.games = <<>> THEN r0 ELSE GameBegins(r0, given.games, 1)
    /\ UNCHANGED <<cache, now, given>>
    /\ UNCHANGED programVars

\* line 367: fetch_trailer_urls is over
SendLookupDone ==
    /\ result.fn = "send_free_games" /\ result.pc = "lookup"
    /\ \E outcome \in LookupOutcomes : result' = SendAfter(result, given.games, outcome)
    /\ UNCHANGED <<cache, now, given>>
    /\ UNCHANGED programVars

\* a call of the bot (send_message, send_media_group, send_photo, send_video)
\* is over
SendBotDone ==
    /\ result.fn = "send_free_games"
    /\ result.pc \in {"none", "media_group", "photo", "text", "video"}
    /\ \E outcome \in SendOutcomes : result' = SendAfter(result, given.games, outcome)
    /\ UNCHANGED <<cache, now, given>>
    /\ UNCHANGED programVars

NextSend == SendBegin \/ SendLookupDone \/ SendBotDone

SpecSend == InitSend /\ [][NextSend]_vars

\* ------------------------------------------------------ the store mutations
\* Each mutation loads the document, changes it and saves it without an await
\* in between (lines 282-328, 655-680, 707-730), so each is one step.  The
\* documents the calls start from: the new one, the two of the scheduler
\* models, and one in which both chats have digest membership, preferences
\* and offer records.
PopulatedDocument ==
    [chat_ids |-> <<2, 1>>,
     users |-> DictPut(DictPut(EmptyDict, str(2), DictPut(EmptyDict, "locale", "de")),
                       str(1), DictPut(DictPut(EmptyDict, "locale", "en-US"), "country", "DE")),
     offer_subs |-> DictPut(EmptyDict, str(2), <<[oid |-> "A", notified |-> TRUE],
                                                  [oid |-> "B", notified |-> FALSE]>>)]
StoreDocuments == {NewDocument, DocumentOnDisk, WatchingDocument, PopulatedDocument}
PrefKeys == {"locale", "country"}
PrefValues(key) == IF key = "locale" THEN Locales ELSE Countries

InitStore ==
    /\ doc \in StoreDocuments
    /\ cache = EmptyDict
    /\ now = 0
    /\ jpc = "idle"
    /\ job = IdleJob
    /\ hpc = "idle"
    /\ hnd = IdleHandler
    /\ sent = [p \in ChatIds \X Offers |-> 0]
    /\ last = NoCall
    /\ ticks = 0
    /\ cmds = 0
    /\ calls = [c \in Callers |-> IdleCall]
    /\ fetched = EmptyDict
    /\ started = 0
    /\ given = NotCalled
    /\ result = NotCalled

\* the mutation op of chat c on the offer or preference key what has turned
\* the document into d
Stored(op, c, what, d) ==
    /\ cmds < MaxCmds
    /\ cmds' = cmds + 1
    /\ doc' = d
    /\ result' = [fn |-> "store", op |-> op, chat |-> c, what |-> what]
    /\ UNCHANGED <<cache, now, jpc, job, hpc, hnd, sent, last, ticks, calls, fetched, started,
                   given>>

\* lines 310-319
StoreSubscribe(c, o) == Stored("subscribe_to_offer", c, o, subscribe_to_offer(doc, c, o))
\* lines 322-328
StoreUnsubscribe(c, o) ==
    Stored("unsubscribe_from_offer", c, o, unsubscribe_from_offer(doc, c, o))
\* lines 282-288, called by setlocale_cmd and setcountry_cmd
StoreSetPref(c, key, value) == Stored("set_user_pref", c, key, set_user_pref(doc, c, key, value))
\* lines 655-666 and 707-719
StoreDigestSubscribe(c) == Stored("digest_subscribe", c, "", digest_subscribe(doc, c))
\* lines 669-680 and 721-730
StoreDigestUnsubscribe(c) == Stored("digest_unsubscribe", c, "", digest_unsubscribe(doc, c))

NextStore ==
    \/ \E c \in ChatIds, o \in Offers : StoreSubscribe(c, o)
    \/ \E c \in ChatIds, o \in Offers : StoreUnsubscribe(c, o)
    \/ \E c \in ChatIds, key \in PrefKeys : \E value \in PrefValues(key) :
          StoreSetPref(c, key, value)
    \/ \E c \in ChatIds : StoreDigestSubscribe(c)
    \/ \E c \in ChatIds : StoreDigestUnsubscribe(c)

SpecStore == InitStore /\ [][NextStore]_vars

\* ------------------------------------------------------------ the cache keys
\* What a user can store: setlocale_cmd stores context.args[0] as it is,
\* setcountry_cmd stores context.args[0].upper() (lines 687-688, 696-697); an
\* argument is any text without blanks.  The fetch functions are called with
\* the stored values (lines 352-353, 743-746, 779-781).
LocaleArgs == {"en", "en|US", "de"}
CountryArgs == {"de", "us|de"}
Upper(s) == CASE s = "de" -> "DE" [] s = "us|de" -> "US|DE" [] OTHER -> s
UserLocales == LocaleArgs
UserCountries == {Upper(a) : a \in CountryArgs}
ItemSamples == {Catalog({}), Catalog({"A"})}

InitKeys ==
    /\ doc = NewDocument
    /\ cache = EmptyDict
    /\ now = 0
    /\ jpc = "idle"
    /\ job = IdleJob
    /\ hpc = "idle"
    /\ hnd = IdleHandler
    /\ sent = [p \in ChatIds \X Offers |-> 0]
    /\ last = NoCall
    /\ ticks = 0
    /\ cmds = 0
    /\ calls = [c \in Callers |-> IdleCall]
    /\ fetched = EmptyDict
    /\ started = 0
    /\ given = NotCalled
    /\ result = NotCalled

\* lines 109-111: a fetch stores its list; fetched remembers it by the triple
KeyPut(locale, country, kind, items) ==
    /\ started < MaxCalls
    /\ started' = started + 1
    /\ cache' = _set_cached(cache, now, locale, country, kind, items)
    /\ fetched' = DictPut(fetched, <<kind, locale, country>>, [at |-> now, items |-> items])
    /\ result' = [fn |-> "_set_cached", kind |-> kind, locale |-> locale, country |-> country,
                  got |-> Nothing]
    /\ UNCHANGED <<now, calls, given>>
    /\ UNCHANGED <<doc, jpc, job, hpc, hnd, sent, last, ticks, cmds>>

\* lines 98-106: a fetch looks its key up
KeyGet(locale, country, kind) ==
    /\ started < MaxCalls
    /\ started' = started + 1
    /\ cache' = _get_cached(cache, now, locale, country, kind)[2]
    /\ result' = [fn |-> "_get_cached", kind |-> kind, locale |-> locale, country |-> country,
                  got |-> _get_cached(cache, now, locale, country, kind)[1]]
    /\ UNCHANGED <<now, calls, fetched, given>>
    /\ UNCHANGED <<doc, jpc, job, hpc, hnd, sent, last, ticks, cmds>>

NextKeys ==
    \/ \E locale \in UserLocales, country \in UserCountries, kind \in Kinds,
          items \in ItemSamples : KeyPut(locale, country, kind, items)
    \/ \E locale \in UserLocales, country \in UserCountries, kind \in Kinds :
          KeyGet(locale, country, kind)

SpecKeys == InitKeys /\ [][NextKeys]_vars
\* ================================================================ properties
Pairs == ChatIds \X Offers

TickOver == jpc \in {"idle", "returned"}

\* the working copy of the running tick holds the pair with the given flag
WorkingFlag(p, flag) ==
    \E k \in 1..Len(DictGet(job.offer_subs, str(p[1]), <<>>)) :
        /\ DictGet(job.offer_subs, str(p[1]), <<>>)[k].oid = p[2]
        /\ DictGet(job.offer_subs, str(p[1]), <<>>)[k].notified = flag

\* C1: between two subscribe / unsubscribe calls of a pair, the ticks deliver
\* its "Now free" notification successfully at most once, whatever the other
\* sends, fetches and document saves of those ticks do.
C1_AtMostOneDelivery == \A p \in Pairs : sent[p] <= 1

\* the two calls are for the same key
SameKey(a, b) ==
    /\ calls[a].kind = calls[b].kind
    /\ calls[a].locale = calls[b].locale
    /\ calls[a].country = calls[b].country

Apart(a, b) ==
    IF calls[a].start < calls[b].start THEN calls[b].start - calls[a].start
    ELSE calls[a].start - calls[b].start

\* C10: a call that starts no more than CACHE_TTL_SECONDS after the last
\* successful request for its key stored its list issues no request and
\* returns that list: a call that fetched and a later call inside the TTL
\* make one request in total and return identical results.
C10_FreshResultIsReused ==
    \A c \in Callers :
        (/\ calls[c].state # "idle"
         /\ calls[c].prior.valid
         /\ calls[c].start - calls[c].prior.at <= CACHE_TTL_SECONDS)
            => /\ calls[c].state = "returned"
               /\ calls[c].reqs = 0
               /\ calls[c].items = calls[c].prior.items

\* C10 as stated: any two calls for one key that start within
\* CACHE_TTL_SECONDS of each other make at most one request in total and,
\* once both are over, have ended alike
C10_AtMostOneRequest ==
    \A a, b \in Callers :
        (/\ a # b
         /\ calls[a].state # "idle" /\ calls[b].state # "idle"
         /\ SameKey(a, b)
         /\ Apart(a, b) <= CACHE_TTL_SECONDS)
            => /\ calls[a].reqs + calls[b].reqs <= 1
               /\ (calls[a].state # "await" /\ calls[b].state # "await")
                     => /\ calls[a].state = calls[b].state
                        /\ calls[a].items = calls[b].items

\* one coroutine fetched a non-empty list, and the other one, starting
\* exactly CACHE_TTL_SECONDS after the list was stored, was served from the
\* cache
C10_Witness ==
    \E a, b \in Callers :
        /\ a # b /\ SameKey(a, b)
        /\ calls[a].state = "returned" /\ calls[a].reqs = 1
        /\ calls[b].state = "returned" /\ calls[b].reqs = 0
        /\ calls[b].prior.valid
        /\ calls[b].start - calls[b].prior.at = CACHE_TTL_SECONDS
        /\ calls[b].items = calls[a].items /\ calls[b].items # <<>>

\* C2: while a record exists its notified flag goes from true to false only
\* by subscribe_to_offer for that chat and offer, which rewrites the record
\* as unnotified; no unsubscribe of another offer and no tick lowers it.
C2_LoweredOnlyBySubscribe ==
    [][\A p \in Pairs :
          (Notified(doc, p[1], p[2]) /\ Watching(doc', p[1], p[2]))
              => /\ doc' = subscribe_to_offer(doc, p[1], p[2])
                 /\ last'.op = "subscribe" /\ last'.chat = p[1] /\ last'.oid = p[2]]_vars

\* C2 as stated: no step at all lowers the flag of an existing record
C2_NeverLowered ==
    [][\A p \in Pairs :
          Notified(doc, p[1], p[2]) => ~Watching(doc', p[1], p[2])]_vars

\* a tick has run over a record that was already notified when the tick
\* loaded it, has written the chat's map back, and the record is notified
C2_Witness ==
    /\ jpc = "returned"
    /\ \E p \in Pairs, q \in job.okSends :
          /\ p[1] = q[1] /\ p # q
          /\ p \notin job.okSends
          /\ WorkingFlag(p, TRUE)
          /\ Notified(doc, p[1], p[2])
          /\ Notified(doc, q[1], q[2])

\* C3: a notification whose send failed in the running tick is not notified
\* in the tick's working copy and not notified in the persisted document, so
\* a record that still exists is still watching when the tick is over.
C3_FailedSendStaysWatching ==
    \A p \in job.failedSends :
        /\ ~WorkingFlag(p, TRUE)
        /\ ~Notified(doc, p[1], p[2])

\* a tick is over in which one notification of a chat failed and another one
\* of the same chat was delivered and saved; the failed one is still watching
C3_Witness ==
    /\ jpc = "returned"
    /\ \E p \in job.failedSends, q \in job.okSends :
          /\ p[1] = q[1]
          /\ Watching(doc, p[1], p[2])
          /\ Notified(doc, q[1], q[2])

\* C4: a persisted flag goes from false to true only when a send of the tick
\* to that chat returns, the offer being in the free set the tick fetched
\* for the chat (empty after a failed fetch) and a send to the chat having
\* succeeded in the tick.
C4_RaisedOnlyByDelivery ==
    [][\A p \in Pairs :
          (Watching(doc, p[1], p[2]) /\ Notified(doc', p[1], p[2]))
              => /\ jpc = "await_send"
                 /\ job.chat = p[1]
                 /\ p[2] \in job.free_ids
                 /\ \E q \in job'.okSends : q[1] = p[1]]_vars

\* C5: once a tick with a successful delivery for a pair is over, the pair is
\* persisted as notified, and it is so after every later tick, as long as no
\* unsubscribe or subscribe of the pair intervenes.
C5_DeliveredIsPersisted ==
    \A p \in Pairs : (sent[p] >= 1 /\ TickOver) => Notified(doc, p[1], p[2])

C7_AbsentUntilSubscribe ==
    [][\A p \in Pairs :
          (Absent(doc, p[1], p[2]) /\ ~Absent(doc', p[1], p[2]))
              => /\ doc' = subscribe_to_offer(doc, p[1], p[2])
                 /\ last'.op = "subscribe" /\ last'.chat = p[1] /\ last'.oid = p[2]]_vars

\* C8: right after subscribe_to_offer returns, is_subscribed_to_offer is
\* true and the chat holds exactly one record, unnotified, for the offer
\* (also when the call repeats the previous one); right after
\* unsubscribe_from_offer returns, is_subscribed_to_offer is false.
C8_SubscriptionIdempotent ==
    /\ last.op = "subscribe" =>
          /\ is_subscribed_to_offer(doc, last.chat, last.oid)
          /\ Cardinality({k \in 1..Len(doc.offer_subs[str(last.chat)]) :
                            doc.offer_subs[str(last.chat)][k].oid = last.oid}) = 1
          /\ Watching(doc, last.chat, last.oid)
    /\ last.op = "unsubscribe" => ~is_subscribed_to_offer(doc, last.chat, last.oid)

\* subscribe_to_offer has just returned for the second time in a row for
\* the same chat and offer
C8_Witness == last.op = "subscribe" /\ last.again

\* C9: a tick that has ended has processed every chat with offer
\* subscriptions and has attempted the digest for every digest subscriber,
\* whatever failed for single users on the way.
C9_TickProcessesEveryone ==
    jpc = "returned" => /\ job.order = <<>>
                        /\ job.digestTried = Range(job.subs)


\* the entry of the call's key was stored more than the TTL before the call
\* started
Expired(c) ==
    /\ calls[c].prior.valid
    /\ calls[c].start - calls[c].prior.at > CACHE_TTL_SECONDS

KeyOf(c) == _cache_key(calls[c].locale, calls[c].country, calls[c].kind)

\* C11: a fetch call is answered from the cache only by an entry stored at
\* most 600 seconds before the call (an entry of exactly that age is served,
\* unchanged); a call that finds an older entry removes it from the cache and
\* issues an upstream request.
C11_ExpiredEntryIsNotServed ==
    \A c \in Callers : calls[c].state # "idle" =>
        /\ calls[c].reqs = 0 =>
              /\ calls[c].prior.valid
              /\ calls[c].start - calls[c].prior.at <= CACHE_TTL_SECONDS
              /\ calls[c].items = calls[c].prior.items
        /\ (calls[c].prior.valid /\ ~Expired(c)) => calls[c].reqs = 0
        /\ Expired(c) => calls[c].reqs = 1
        /\ (Expired(c) /\ calls[c].state = "await") =>
              \/ KeyOf(c) \notin DOMAIN cache
              \/ cache[KeyOf(c)].at >= calls[c].start

\* one call was served an entry aged exactly 600 seconds, and one second
\* later the other call found the entry expired and has its request out
C11_Witness ==
    \E a, b \in Callers :
        /\ calls[a].state = "returned" /\ calls[a].reqs = 0
        /\ calls[a].start - calls[a].prior.at = CACHE_TTL_SECONDS
        /\ calls[b].state = "await" /\ Expired(b)
        /\ KeyOf(b) = KeyOf(a)
        /\ KeyOf(b) \notin DOMAIN cache

\* the windows of an element, offer after offer
WindowsOf(offers) ==
    LET Flat[i \in 0..Len(offers)] == IF i = 0 THEN <<>> ELSE Flat[i - 1] \o offers[i]
    IN  Flat[Len(offers)]

\* a bound of a window is absent, or a date on the required side of now
StartsByNow(w, t) ==
    w.startDate.tag = "none" \/ (w.startDate.tag = "date" /\ Instant(w.startDate) <= t)
EndsAfterNow(w, t) ==
    w.endDate.tag = "none" \/ (w.endDate.tag = "date" /\ t < Instant(w.endDate))
HasActiveWindow(el, t) ==
    \E k \in 1..Len(WindowsOf(el.current)) :
        /\ StartsByNow(WindowsOf(el.current)[k], t)
        /\ EndsAfterNow(WindowsOf(el.current)[k], t)

IdsOf(items) == [i \in 1..Len(items) |-> items[i].id]

\* C12: a fresh fetch_free_games returns, in upstream order and once each,
\* exactly the elements that have a window whose start is absent or not after
\* now and whose end is absent or after now.
C12_FreeIffActiveWindow ==
    (result.fn = "current" /\ ~result.raised) =>
        IdsOf(result.items) =
            IdsOf(SelectSeq(given.elements, LAMBDA el : HasActiveWindow(el, now)))

\* the start attached to a returned element is an instant
Resolvable(item) == item.upcomingStart.tag = "date"

\* C13: the list fetch_upcoming_games returns is in non-decreasing order of
\* the instants of soonestStart, whatever UTC offsets the dates are written
\* with, and an element without a resolvable start comes after every element
\* that has one.
C13_SortedBySoonestInstant ==
    (result.fn = "upcoming" /\ ~result.raised) =>
        \A i, j \in 1..Len(result.items) : i < j =>
            /\ Resolvable(result.items[j]) => Resolvable(result.items[i])
            /\ (Resolvable(result.items[i]) /\ Resolvable(result.items[j])) =>
                  Instant(result.items[i].upcomingStart)
                      <= Instant(result.items[j].upcomingStart)

\* the slugs of the best source an element has, by the priority of the spec
IsProductHome(m) == m.pageType \in {"productHome", "PRODUCTHOME", "producthome"}
HomeSlugs(el) ==
    {el.mappings[i].pageSlug :
        i \in {k \in 1..Len(el.mappings) : IsProductHome(el.mappings[k])}} \ {<<>>}
MappingSlugs(el) == {el.mappings[i].pageSlug : i \in 1..Len(el.mappings)} \ {<<>>}
OfferMappingSlugs(el) ==
    {el.offerMappings[i].pageSlug : i \in 1..Len(el.offerMappings)} \ {<<>>}
BestSlugs(el) ==
    IF HomeSlugs(el) # {} THEN HomeSlugs(el)
    ELSE IF MappingSlugs(el) # {} THEN MappingSlugs(el)
    ELSE IF OfferMappingSlugs(el) # {} THEN OfferMappingSlugs(el)
    ELSE IF el.productSlug # <<>> THEN {el.productSlug}
    ELSE {el.urlSlug} \ {<<>>}

\* C14: build_store_url resolves the slug of the best source the element has
\* (producthome mapping, any mapping, offer mapping, productSlug, urlSlug), in
\* whatever order the mappings are listed, and the storefront root when the
\* element has no slug at all.
C14_UrlByPriority ==
    (result.fn = "slugs" /\ result.url # Unset) =>
        IF BestSlugs(given.el) = {}
        THEN result.url.value = StoreRoot
        ELSE \E s \in BestSlugs(given.el) : result.url.value = slug_to_url(s, given.locale)

\* a mapping without page type is listed before a producthome mapping, the
\* element also has a productSlug, and the URL is built
C14_Witness ==
    /\ result.fn = "slugs" /\ result.url # Unset
    /\ Len(given.el.mappings) = 2
    /\ given.el.mappings[1] = [pageType |-> "generic", pageSlug |-> <<"x">>]
    /\ given.el.mappings[2] = [pageType |-> "PRODUCTHOME", pageSlug |-> <<"bundles", "/", "x">>]
    /\ given.el.productSlug # <<>>
    /\ result.url.value = slug_to_url(<<"bundles", "/", "x">>, given.locale)

\* the value stored for a field of a chat's prefs in a file, or the default
StoredOr(file, chat_id, field, default) ==
    IF file \in {MissingFile, CorruptFile} THEN default
    ELSE IF str(chat_id) \notin DOMAIN file.users THEN default
    ELSE IF field \notin DOMAIN file.users[str(chat_id)] THEN default
    ELSE file.users[str(chat_id)][field]

\* C15: get_user_prefs returns the stored locale and country, "en-US" and
\* "US" for a field that is not stored, and leaves the file as it found it:
\* missing if it was missing, and with the same content otherwise.
C15_PrefsReadOnly ==
    result.fn = "get_user_prefs" =>
        /\ ~result.out.raised
        /\ result.out.prefs.locale = StoredOr(given.file, given.chat_id, "locale", "en-US")
        /\ result.out.prefs.country = StoredOr(given.file, given.chat_id, "country", "US")
        /\ doc = given.file

\* C16: when a tick is over, the digest has been attempted for every chat
\* that was in chat_ids when the tick started, whatever the notified flags of
\* its offer subscriptions are and whatever happened to the chats before it.
C16_DigestReachesEverySubscriber ==
    \A c \in ChatIds :
        (jpc = "returned" /\ InSeq(job.subs, c)) => c \in job.digestTried

\* the pair that the document of the restarted process holds as notified:
\* every delivery for it follows a new subscribe_to_offer
Renewed == <<1, "A">>

\* a handler has come to its end in this step with subscribe_to_offer of p
\* as the last thing done to the document
SubscribeReturns(p) ==
    /\ hpc' = "idle" /\ (hpc # "idle" \/ cmds' # cmds)
    /\ last'.op = "subscribe" /\ last'.chat = p[1] /\ last'.oid = p[2]

\* the tick has got its answer for the last message of p's chat, p's own
\* message has been delivered, and the tick has moved on
DeliveredAndMovedOn(p) ==
    /\ jpc = "await_send" /\ job.chat = p[1]
    /\ p \in job'.okSends
    /\ (jpc' # "await_send" \/ job'.chat # p[1])

\* C17: subscribe_to_offer on a record that is notified (or not) leaves it
\* not notified, and a later tick that finds the offer free and delivers the
\* message leaves the record notified again.
C17_ResubscribeStartsNewCycle ==
    [][/\ SubscribeReturns(Renewed) => Watching(doc', Renewed[1], Renewed[2])
       /\ DeliveredAndMovedOn(Renewed) => Notified(doc', Renewed[1], Renewed[2])]_vars

\* the instants of the starts of an element's upcoming windows that parse
\* and lie strictly after t
FutureInstants(el, t) ==
    {Instant(WindowsOf(el.upcoming)[k].startDate) :
        k \in {n \in 1..Len(WindowsOf(el.upcoming)) :
                /\ WindowsOf(el.upcoming)[n].startDate.tag = "date"
                /\ Instant(WindowsOf(el.upcoming)[n].startDate) > t}}

ElementWithId(id) == given.elements[int(id)]

\* the returned elements are those with a future start, each with the least
\* of its future starts attached
IncludedWithSoonest ==
    /\ {result.items[i].id : i \in 1..Len(result.items)} =
          {given.elements[i].id :
              i \in {n \in 1..Len(given.elements) :
                        FutureInstants(given.elements[n], now) # {}}}
    /\ \A i \in 1..Len(result.items) :
          /\ Instant(result.items[i].upcomingStart)
                \in FutureInstants(ElementWithId(result.items[i].id), now)
          /\ \A s \in FutureInstants(ElementWithId(result.items[i].id), now) :
                Instant(result.items[i].upcomingStart) <= s

\* returned elements with the same soonest start are in upstream order
TiesKeepOrder ==
    \A i, j \in 1..Len(result.items) :
        (i < j /\ Instant(result.items[i].upcomingStart)
                    = Instant(result.items[j].upcomingStart))
            => int(result.items[i].id) < int(result.items[j].id)

\* C18: fetch_upcoming_games returns exactly the elements that have an
\* upcoming window whose start parses and is strictly after now, attaches to
\* each the minimum of those starts, and keeps elements with equal soonest
\* start in their upstream order.
C18_FutureStartsStable ==
    (result.fn = "upcoming" /\ ~result.raised) =>
        IncludedWithSoonest /\ TiesKeepOrder

\* a slug without the blanks around it and the slashes before it
Trimmed(s) == DropLeading(DropTrailing(DropLeading(s, {" "}), {" "}), {"/"})

\* a slug with one leading "p/", "bundles/" or "store/" taken off
WithoutOnePrefix(s) ==
    IF Len(s) >= 2 /\ s[1] \in PathPrefixes /\ s[2] = "/"
    THEN SubSeq(s, 3, Len(s))
    ELSE s

\* C19: get_page_slug is absent exactly when build_store_url gives the
\* storefront root; otherwise both resolve one and the same slug of the
\* element's best source, and get_page_slug returns it with one leading
\* "p/", "bundles/" or "store/" removed and whatever follows kept.
C19_SameSlugOnePrefixRemoved ==
    (result.fn = "slugs" /\ result.url # Unset /\ result.page_slug # Unset) =>
        /\ ~result.page_slug.value.some <=> result.url.value = StoreRoot
        /\ result.page_slug.value.some =>
              \E s \in BestSlugs(given.el) :
                  /\ result.url.value = slug_to_url(s, given.locale)
                  /\ result.page_slug.value.slug = WithoutOnePrefix(Trimmed(s))

\* the (locale, slug) candidates in the order of the spec: locale by locale,
\* within a locale slug by slug
CandidateOrder ==
    LET n == Len(slug_candidates(given.page_slug, given.namespace))
        m == Len(locales_to_try(given.locale))
    IN  [k \in 1..(m * n) |-> [li |-> ((k - 1) \div n) + 1, si |-> ((k - 1) % n) + 1]]

\* the slug candidates are the given slug, the slug without its hex suffix
\* when it has one, and the two with the namespace in front when there is one
CandidatesAsSpecified ==
    LET c == slug_candidates(given.page_slug, given.namespace)
        suffixed == given.page_slug[Len(given.page_slug)] \in HexSuffixes
        base == SubSeq(given.page_slug, 1, Len(given.page_slug) - 1)
    IN  /\ c[1] = given.page_slug
        /\ (suffixed /\ base # <<>>) => c[2] = base
        /\ Len(c) <= 4
        /\ \A k \in 1..Len(c) :
              \/ c[k] \in {given.page_slug, base}
              \/ /\ given.namespace # ""
                 /\ c[k] \in {<<given.namespace, "/">> \o given.page_slug,
                              <<given.namespace, "/">> \o base}
        /\ locales_to_try(given.locale) = <<given.locale, "en", "en-GB">>

\* C20: the requests of fetch_trailer_urls follow the candidate order without
\* leaving a candidate out, none is made after a candidate has returned a
\* document, there are at most |locales| x |slug candidates| of them, and the
\* call returns (None, None), without raising, only after every candidate
\* has failed.
C20_CandidatesInOrder ==
    result.fn = "fetch_trailer_urls" =>
        /\ CandidatesAsSpecified
        /\ Len(result.log) <= Len(CandidateOrder)
        /\ \A k \in 1..Len(result.log) :
              /\ result.log[k].li = CandidateOrder[k].li
              /\ result.log[k].si = CandidateOrder[k].si
              /\ k < Len(result.log) => result.log[k].outcome # "document"
        /\ result.out = "absent" =>
              /\ Len(result.log) = Len(CandidateOrder)
              /\ \A k \in 1..Len(result.log) : result.log[k].outcome # "document"
        /\ result.out = "resolved" => result.log[Len(result.log)].outcome = "document"

\* every string of a document, as a list item or as the value of a map entry
RECURSIVE StringsIn(_)
StringsIn(node) ==
    IF node.t = "str" THEN {node.s}
    ELSE UNION {StringsIn(node.c[i]) : i \in 1..Len(node.c)}

EndsAsVideo(s) == s # <<>> /\ s[Len(s)] \in {".mp4", ".webm", ".mov"}
ContainsPiece(s, pieces) == \E i \in 1..Len(s) : s[i] \in pieces

\* C21: when the scanned tree holds, anywhere, a string that ends in .mp4,
\* .webm or .mov or contains .mp4, scan_modules returns a direct-video URL,
\* and when it holds a string containing youtube.com or youtu.be, it returns
\* a YouTube URL.
C21_AnyStringIsCandidate ==
    result.fn = "scan_modules" =>
        /\ (\E s \in StringsIn(given.obj) : EndsAsVideo(s) \/ ContainsPiece(s, {".mp4"}))
              => result.direct.some
        /\ (\E s \in StringsIn(given.obj) : ContainsPiece(s, {"youtube.com", "youtu.be"}))
              => result.yt.some

\* the first link found in a sequence of optional links
FirstFound(links) ==
    IF \E i \in 1..Len(links) : links[i].some
    THEN links[CHOOSE i \in 1..Len(links) :
                  links[i].some /\ \A j \in 1..(i - 1) : ~links[j].some]
    ELSE NoLink

\* what the walk finds of one kind below a list or a map, child by child
FoundBelow(obj, kind) ==
    [i \in 1..Len(obj.c) |->
        IF obj.t = "dict" /\ obj.c[i].t \notin {"dict", "list"} THEN NoLink
        ELSE scan_modules(obj.c[i])[kind]]

SendsOf(i) == SelectSeq(result.log, LAMBDA e : e.i = i)
CaptionsOf(i) ==
    SelectSeq(result.log, LAMBDA e : e.i = i /\ e.ok /\ e.kind \in {"media_group", "photo", "text"})
Tried(i, kind) == \E k \in 1..Len(result.log) : result.log[k].i = i /\ result.log[k].kind = kind
Failed(i, kind) ==
    \E k \in 1..Len(result.log) :
        result.log[k].i = i /\ result.log[k].kind = kind /\ ~result.log[k].ok
\* the games the loop is through with
Finished(i) == i < result.i

\* C23: in send_free_games every game the loop is through with had its
\* caption delivered, whatever the trailer lookup, the media group, the photo
\* and the video did: a lookup that raised means no trailer (no media group,
\* no video), a failed media group is followed by the photo and the video, a
\* failed photo by the caption as text, a failed video ends nothing, and a
\* game whose first send succeeded has its caption delivered exactly once.
C23_CaptionDespiteMediaFailures ==
    result.fn = "send_free_games" =>
        /\ \A i \in 1..Len(given.games) :
              /\ Finished(i) => Len(CaptionsOf(i)) >= 1
              /\ i \in result.failed => ~Tried(i, "media_group") /\ ~Tried(i, "video")
              /\ (Finished(i) /\ Failed(i, "media_group")) => Tried(i, "photo") /\ Tried(i, "video")
              /\ (Finished(i) /\ Failed(i, "photo")) =>
                    Tried(i, "text") /\ ~Failed(i, "text")
              /\ (SendsOf(i) # <<>> /\ SendsOf(i)[1].ok /\ (Finished(i) \/ result.out # "pending"))
                    => Len(CaptionsOf(i)) = 1
        /\ result.out = "raised" =>
              result.log[Len(result.log)].kind \in {"text", "none"}

\* two games, both through: for the first the media group, the photo and the
\* video failed and the text went out, for the second the lookup raised
C23_Witness ==
    /\ result.fn = "send_free_games" /\ result.out = "returned"
    /\ Len(given.games) = 2
    /\ Failed(1, "media_group") /\ Failed(1, "photo") /\ Failed(1, "video")
    /\ Len(CaptionsOf(1)) = 1
    /\ 2 \in result.failed /\ Len(CaptionsOf(2)) = 1

\* C24: a subscription record that is in the persisted document, among them
\* one that subscribe_to_offer wrote while the tick was suspended at an
\* await, leaves the document only by unsubscribe_from_offer for that chat
\* and offer: no step of the tick, its write-back included, removes it.
C24_TickKeepsConcurrentSubscription ==
    [][\A p \in Pairs :
          (~Absent(doc, p[1], p[2]) /\ Absent(doc', p[1], p[2]))
              => /\ doc' = unsubscribe_from_offer(doc, p[1], p[2])
                 /\ cmds' = cmds + 1
                 /\ last'.op = "unsubscribe" /\ last'.chat = p[1] /\ last'.oid = p[2]]_vars

\* a step of the tick: the scheduler's coroutine has moved
TickStep == jpc' # jpc \/ job' # job

\* C25: a step of the tick changes the persisted document only when a
\* notification of the tick's current chat has been delivered in this tick;
\* a tick without a successful per-offer delivery (nothing watched is free,
\* every send fails, every fetch fails) leaves chat_ids, users and offer_subs
\* as they were.
C25_TickWithoutDeliveryWritesNothing ==
    [][(TickStep /\ doc' # doc) => \E p \in job'.okSends : p[1] = job.chat]_vars

\* a tick is over in which a send was tried and failed and none succeeded,
\* and the record is still watching
C25_Witness ==
    /\ jpc = "returned" /\ job.outcome = "completed"
    /\ job.okSends = {} /\ <<1, "A">> \in job.failedSends
    /\ Watching(doc, 1, "A")

\* the persisted record of a pair, the stored value of a preference and the
\* number of times a chat is in chat_ids
RecordOf(d, c, o) ==
    IF Absent(d, c, o) THEN [present |-> FALSE, notified |-> FALSE]
    ELSE [present |-> TRUE, notified |-> Meta(d, c, o).notified]
PrefOf(d, c, key) == DictGet(DictGet(d.users, str(c), EmptyDict), key, None)
TimesIn(d, c) == Cardinality({i \in 1..Len(d.chat_ids) : d.chat_ids[i] = c})

SameRecordsBut(d, e, pairs) ==
    \A p \in Pairs \ pairs : RecordOf(d, p[1], p[2]) = RecordOf(e, p[1], p[2])
SamePrefsBut(d, e, prefs) ==
    \A c \in ChatIds, key \in PrefKeys :
        <<c, key>> \notin prefs => PrefOf(d, c, key) = PrefOf(e, c, key)
SameDigestBut(d, e, chats) == \A c \in ChatIds \ chats : TimesIn(d, c) = TimesIn(e, c)

\* C26: each store mutation changes only its own record.  subscribe_to_offer
\* and unsubscribe_from_offer of (chat, offer) leave every other record, the
\* digest list and all preferences as they were; set_user_pref changes only
\* the given key of the given chat; the digest subscribe and unsubscribe
\* change only that chat's membership of chat_ids, in which no chat is twice.
C26_MutationChangesOwnRecordOnly ==
    [][LET op == result'.op
           c == result'.chat
           what == result'.what
       IN  /\ op \in {"subscribe_to_offer", "unsubscribe_from_offer"} =>
                 /\ SameRecordsBut(doc, doc', {<<c, what>>})
                 /\ SamePrefsBut(doc, doc', {}) /\ doc'.chat_ids = doc.chat_ids
                 /\ RecordOf(doc', c, what).present = (op = "subscribe_to_offer")
           /\ op = "set_user_pref" =>
                 /\ SameRecordsBut(doc, doc', {})
                 /\ SamePrefsBut(doc, doc', {<<c, what>>}) /\ doc'.chat_ids = doc.chat_ids
                 /\ PrefOf(doc', c, what) \in PrefValues(what)
           /\ op \in {"digest_subscribe", "digest_unsubscribe"} =>
                 /\ SameRecordsBut(doc, doc', {})
                 /\ SamePrefsBut(doc, doc', {})
                 /\ SameDigestBut(doc, doc', {c})
                 /\ TimesIn(doc', c) = IF op = "digest_subscribe" THEN 1 ELSE 0
           /\ \A x \in ChatIds : TimesIn(doc', x) <= 1]_vars

\* set_user_pref has just changed one preference of chat 1 in a document that
\* holds another preference of that chat, preferences of the other chat,
\* digest members and offer records
C26_Witness ==
    /\ result.fn = "store" /\ result.op = "set_user_pref"
    /\ result.chat = 1 /\ result.what = "locale"
    /\ PrefOf(doc, 1, "locale") = "de" /\ PrefOf(doc, 1, "country") = "DE"
    /\ PrefOf(doc, 2, "locale") = "de"
    /\ doc.chat_ids = <<2, 1>>
    /\ Notified(doc, 2, "A") /\ Watching(doc, 2, "B")

\* what the last successful request for the key of call c stored, if any
StoredFor(c) ==
    LET k == <<calls[c].kind, calls[c].locale, calls[c].country>>
    IN  IF k \in DOMAIN fetched
        THEN [valid |-> TRUE, at |-> fetched[k].at, items |-> fetched[k].items]
        ELSE NoFetch

\* the request of call c fails in this step
RequestFails(c) == calls[c].state = "await" /\ calls'[c].state = "raised"

\* C27: the step in which the upstream request of a fetch call fails ends the
\* call with an exception and leaves the cache as it is; as long as no other
\* call has stored a result for the key since the failed call began, the
\* cache holds no entry for the key, and a call that finds none issues a
\* request.
C27_FailedFetchStoresNothing ==
    [][\A c \in Callers :
          /\ RequestFails(c) => cache' = cache
          /\ (calls[c].state = "raised" /\ StoredFor(c) = calls[c].prior)
                => KeyOf(c) \notin DOMAIN cache
          /\ (calls'[c] # calls[c] /\ started' # started /\ KeyOf(c)' \notin DOMAIN cache)
                => calls'[c].state = "await" /\ calls'[c].reqs = 1]_vars

\* a call found an expired entry, its request failed, and the key has no
\* entry; then the other coroutine called for the same key and waits for its
\* own request
C27_Witness ==
    /\ calls["job"].state = "raised" /\ calls["job"].prior.valid
    /\ calls["handler"].state = "await" /\ SameKey("job", "handler")
    /\ calls["handler"].start >= calls["job"].start
    /\ StoredFor("job") = calls["job"].prior
    /\ KeyOf("job") \notin DOMAIN cache

\* C28: what _get_cached returns for a triple (locale, country, class) is
\* what was last stored for that very triple, and nothing when nothing was
\* stored for it, also for the locale and country strings users can set: a
\* store for one triple never shows in the lookup of another.
C28_KeysAreInjective ==
    result.fn = "_get_cached" =>
        LET k == <<result.kind, result.locale, result.country>>
        IN  result.got = IF k \in DOMAIN fetched THEN Some(fetched[k].items) ELSE Nothing
====
